---- MODULE Spec2Model ----
(***************************************************************************)
(* AibaTS: the meeting workflow (app/ui_main.py) and the Markdown section  *)
(* upsert engine (services/wiki.py).                                       *)
(*                                                                         *)
(* Text is modelled character by character: a Python str is a sequence of  *)
(* one-character strings, a list of lines is a sequence of such sequences, *)
(* and a file is the text it holds.  Reading a file with                   *)
(* splitlines(keepends=True) and writing it back with "".join(lines) are   *)
(* modelled by what they do, so a line that holds a line break is split    *)
(* when the file is read again.                                            *)
(***************************************************************************)
EXTENDS Integers, Sequences, FiniteSets, TLC

VARIABLES
    wiki,        \* the text of the project wiki file
    w_prev,      \* the text of the wiki file before the last upsert call
    w_args,      \* the arguments of the last upsert call, or NoCall
    w_changed,   \* the value the last upsert call returned
    w_repeat,    \* TRUE when the last call repeated the call right before it
    w_calls,     \* how many upsert calls were made
    status,               \* the AppStatus the status label shows
    record_toggle_btn,    \* [enabled, checked] of the record toggle button
    _status_reset_timer,  \* TRUE while the single-shot reset timer is running
    weekly_dialog,        \* TRUE while the modal weekly preview is open
    wiki_editor,          \* the meeting sections of the text in the wiki editor
    _recorder,            \* PyAudioRecorder: [_running, _output_path, alive]
    _current_meeting_id,  \* n stands for "meeting_<n>", 0 for None
    _last_audio_path,     \* n stands for "meeting_<n>_full.wav", 0 for None
    _transcribing,        \* the in-progress flag of the workflow
    _history,             \* MeetingHistory.records (in memory)
    single_shots,         \* pending QTimer.singleShot(100, _start_complete_workflow)
    ui_set_status,        \* emissions of the signal not yet delivered
    complete_workflow,    \* run -> where its worker thread stands
    log,                  \* run -> what the run did, in order
    recordings,           \* how many recordings were started
    stop_failed,          \* the recordings whose stop() returned False
    disk                  \* the files the workflow writes

VARIABLES
    journal_file,  \* Journal_wiki.md: [exists, content]
    j_prev,        \* the journal file before the last journal call
    j_call,        \* the last journal call and its arguments, or NoJournalCall
    j_repeat,      \* TRUE when the last call had the arguments of the call before
    j_dates,       \* the dates the journal calls were made for
    j_entries,     \* the entries written, oldest first: [date_str, at, now_hhmm]
    j_calls        \* how many journal calls were made

VARIABLES
    index_file,      \* meetings_index.json of the project
    json_notes_dir,  \* n -> the file meeting_<n>_notes.json
    idx_prev,        \* the index file before the last index call
    idx_call,        \* the last index call and its arguments, or NoIndexCall
    clock,           \* datetime.now() of the next call
    idx_calls        \* how many steps the index state machine made

VARIABLES
    s_meetings,  \* the meetings of the index the search loads
    s_call,      \* the last call of the search state machine, or NoSearchCall
    s_results    \* the entries the last search returned

VARIABLES
    history_records,  \* MeetingHistory.records: the records in memory
    history_file,     \* meeting_history.json: [exists, payload]
    h_prev,           \* the records before the last history call
    h_call,           \* the last history call and its record, or NoHistoryCall
    h_calls           \* how many history calls were made

VARIABLES
    http_pc,        \* where the backend call stands: which retry loop, or done
    http_config,    \* the environment and the inputs of the backend call
    http_attempt,   \* the value of attempt in the running retry loop
    http_chunk,     \* the chunk _transcribe_chunked is posting
    http_requests,  \* the requests.post calls of the last retry loop of the call
    http_raised,    \* what the backend call raised, NoError if nothing
    http_calls      \* how many backend calls were made

VARIABLES
    t_pc,        \* run -> the step of Steps the run makes next
    t_local,     \* run -> the local variables of its worker thread
    t_selected,  \* project_combo.currentText()
    t_current,   \* self._current_meeting_id: n stands for "meeting_<n>"
    t_wiki,      \* project -> the text of its wiki file
    t_index      \* project -> its meetings_index.json

VARIABLES
    b_pc,      \* thread -> where it stands in its index call
    b_local,   \* thread -> the index it loaded and the notes files it scanned
    b_builds   \* how many times the UI thread loaded the meetings list

VARIABLES
    rec_running,      \* PyAudioRecorder._running
    rec_output_path,  \* PyAudioRecorder._output_path: n for the path of start n
    rec_thread,       \* PyAudioRecorder._thread: the capture thread started last
    rec_stream,       \* _p, _stream and _wf: n when start n opened them, 0 for None
    rec_loops,        \* capture thread -> where it stands in _run_loop
    rec_ui,           \* what the UI thread does in the recorder: idle or in join
    rec_call,         \* the last call of start or stop that returned
    rec_starts        \* how many times start was called

VARIABLES
    wk_journal,   \* Journal_wiki.md as the weekly summary reads it
    wk_call,      \* the last call of _filter_journal_sections_by_project
    wk_result,    \* the sections that call returned
    wk_entries    \* how many entries were appended to the journal

wikiVars == <<wiki, w_prev, w_args, w_changed, w_repeat, w_calls>>

twoVars == <<t_pc, t_local, t_selected, t_current, t_wiki, t_index>>

httpVars ==
    <<http_pc, http_config, http_attempt, http_chunk, http_requests,
      http_raised, http_calls>>

historyVars == <<history_records, history_file, h_prev, h_call, h_calls>>

\* The variables of the services that have a state machine of their own
\* besides the wiki, the journal, the index and the search
buildVars == <<b_pc, b_local, b_builds>>

recorderVars ==
    <<rec_running, rec_output_path, rec_thread, rec_stream, rec_loops, rec_ui,
      rec_call, rec_starts>>

weeklyVars == <<wk_journal, wk_call, wk_result, wk_entries>>

restVars == <<historyVars, httpVars, twoVars, buildVars, recorderVars, weeklyVars>>

searchVars == <<s_meetings, s_call, s_results>>

indexVars == <<index_file, json_notes_dir, idx_prev, idx_call, clock, idx_calls>>

journalVars == <<journal_file, j_prev, j_call, j_repeat, j_dates, j_entries, j_calls>>

uiVars == <<status, record_toggle_btn, _status_reset_timer, weekly_dialog, wiki_editor>>

workflowVars ==
    <<uiVars, _recorder, _current_meeting_id, _last_audio_path, _transcribing,
      _history, single_shots, ui_set_status, complete_workflow, log, recordings,
      stop_failed, disk>>

\* The variables of the services that are exercised apart from the main window
serviceVars == <<wikiVars, journalVars, indexVars, searchVars, restVars>>

vars == <<serviceVars, workflowVars>>

---------------------------------------------------------------------------
(* Python str and list primitives.                                         *)

MinOf(S) == CHOOSE x \in S : \A y \in S : x <= y

\* The characters str.strip() removes (the ones the model's alphabet holds).
Whitespace == {" ", "\n", "\t", "\r"}

\* The first position from i on whose character is not in chars (Len(s) + 1
\* when there is none)
RECURSIVE first_not_in(_, _, _)
first_not_in(s, i, chars) ==
    IF i > Len(s) THEN i
    ELSE IF s[i] \notin chars THEN i ELSE first_not_in(s, i + 1, chars)

\* The last position up to i whose character is not in chars (0 when there
\* is none)
RECURSIVE last_not_in(_, _, _)
last_not_in(s, i, chars) ==
    IF i < 1 THEN 0
    ELSE IF s[i] \notin chars THEN i ELSE last_not_in(s, i - 1, chars)

\* The first position from i on whose character is in chars (Len(s) + 1
\* when there is none)
RECURSIVE first_in(_, _, _)
first_in(s, i, chars) ==
    IF i > Len(s) THEN i
    ELSE IF s[i] \in chars THEN i ELSE first_in(s, i + 1, chars)

\* s.strip(chars)
strip_chars(s, chars) ==
    SubSeq(s, first_not_in(s, 1, chars), last_not_in(s, Len(s), chars))

\* s.strip()
strip(s) == strip_chars(s, Whitespace)

\* s.lstrip()
lstrip(s) == SubSeq(s, first_not_in(s, 1, Whitespace), Len(s))

\* s.startswith(p)
startswith(s, p) == Len(s) >= Len(p) /\ SubSeq(s, 1, Len(p)) = p

\* s.endswith(p)
endswith(s, p) == Len(s) >= Len(p) /\ SubSeq(s, Len(s) - Len(p) + 1, Len(s)) = p

\* content.splitlines(keepends=True): a line ends after "\n", "\r" or "\r\n"
RECURSIVE splitlines(_)
splitlines(c) ==
    IF c = <<>> THEN <<>>
    ELSE LET k == first_in(c, 1, {"\n", "\r"})
         IN  IF k > Len(c) THEN <<c>>
             ELSE LET e == IF c[k] = "\r" /\ k < Len(c) /\ c[k + 1] = "\n"
                           THEN k + 1 ELSE k
                  IN  <<SubSeq(c, 1, e)>> \o splitlines(SubSeq(c, e + 1, Len(c)))

\* "".join(lines)
RECURSIVE join(_)
join(lines) ==
    IF lines = <<>> THEN <<>> ELSE Head(lines) \o join(Tail(lines))

---------------------------------------------------------------------------
(* services/wiki.py                                                        *)

\* "## [{date}] {name}  <!-- id:{meeting_id} -->"
SECTION_TEMPLATE(date, name, meeting_id) ==
    <<"#","#"," ","[">> \o date \o <<"]"," ">> \o name
        \o <<" "," ","<","!","-","-"," ","i","d",":">> \o meeting_id
        \o <<" ","-","-",">">>

TopicsDiscussed == <<"T","o","p","i","c","s"," ","D","i","s","c","u","s","s","e","d">>

ToDo == <<"T","o"," ","D","o">>

Accomplished == <<"A","c","c","o","m","p","l","i","s","h","e","d">>

\* (title, attribute) in the order the subsections are written
SUBSECTIONS ==
    << <<TopicsDiscussed, "recap_topics">>,
       <<ToDo, "actions">>,
       <<Accomplished, "decisions">> >>

\* The first line whose strip() equals the header's, and the end of its
\* section: <<start, end>> are the first and last line of the section
\* (1-based), <<0, 0>> when no line matches.
_find_section_bounds(lines, header_line) ==
    LET hits == {i \in 1..Len(lines) : strip(lines[i]) = strip(header_line)}
    IN  IF hits = {} THEN <<0, 0>>
        ELSE LET start_idx == MinOf(hits)
                 nexts == {j \in (start_idx + 1)..Len(lines) :
                              startswith(lines[j], <<"#","#"," ">>)}
             IN  <<start_idx, IF nexts = {} THEN Len(lines) ELSE MinOf(nexts) - 1>>

\* The texts of the bullets among existing_lines
existing_bullets(existing_lines) ==
    {strip(SubSeq(strip(existing_lines[i]), 3, Len(strip(existing_lines[i])))) :
        i \in {j \in 1..Len(existing_lines) :
                  startswith(strip(existing_lines[j]), <<"-"," ">>)}}

RECURSIVE merge_loop(_, _, _)
merge_loop(merged, existing_set, new_items) ==
    IF new_items = <<>> THEN merged
    ELSE LET item_norm == strip(Head(new_items))
         IN  IF item_norm # <<>> /\ item_norm \notin existing_set
             THEN merge_loop(Append(merged, <<"-"," ">> \o item_norm \o <<"\n">>),
                             existing_set \cup {item_norm}, Tail(new_items))
             ELSE merge_loop(merged, existing_set, Tail(new_items))

\* Mutant of _merge_bullets: the existing bullets are not looked at, so a
\* candidate that is already a bullet is appended again
_merge_bullets_unseen(existing_lines, new_items) ==
    merge_loop(existing_lines, {}, new_items)

_merge_bullets(existing_lines, new_items) ==
    merge_loop(existing_lines, existing_bullets(existing_lines), new_items)

\* re.split(r"[\n\r]+|(?<=[\.!?])\s+", s), scanning s from position i with the
\* current part starting at position cur
RegexSpace == {" ", "\t", "\n", "\r"}

RunEnd(s, i, chars) == first_not_in(s, i, chars) - 1

RECURSIVE re_split(_, _, _)
re_split(s, i, cur) ==
    IF i > Len(s) THEN <<SubSeq(s, cur, Len(s))>>
    ELSE IF s[i] \in {"\n", "\r"}
         THEN LET e == RunEnd(s, i, {"\n", "\r"})
              IN  <<SubSeq(s, cur, i - 1)>> \o re_split(s, e + 1, e + 1)
         ELSE IF i > 1 /\ s[i - 1] \in {".", "!", "?"} /\ s[i] \in RegexSpace
              THEN LET e == RunEnd(s, i, RegexSpace)
                   IN  <<SubSeq(s, cur, i - 1)>> \o re_split(s, e + 1, e + 1)
              ELSE re_split(s, i + 1, cur)

\* The cap on the number of topic bullets
TopicCap == 12

\* The minimum length of a topic
TopicMinLen == 3

RECURSIVE unique(_, _)
unique(topics, seen) ==
    IF topics = <<>> THEN <<>>
    ELSE IF Head(topics) \in seen THEN unique(Tail(topics), seen)
         ELSE <<Head(topics)>> \o unique(Tail(topics), seen \cup {Head(topics)})

\* The characters p.strip(" -...\t") removes from a topic: blank, dash and
\* tab (the bullet character of the source is outside the model's alphabet)
TopicStripChars == {" ", "-", "\t"}

RECURSIVE topic_parts(_)
topic_parts(parts) ==
    IF parts = <<>> THEN <<>>
    ELSE LET t == strip_chars(Head(parts), TopicStripChars)
         IN  (IF Len(t) >= TopicMinLen THEN <<t>> ELSE <<>>) \o topic_parts(Tail(parts))

_recap_to_topics(recap_text) ==
    IF recap_text = <<>> THEN <<>>
    ELSE LET unique_topics == unique(topic_parts(re_split(recap_text, 1, 1)), {})
         IN  SubSeq(unique_topics, 1,
                    IF Len(unique_topics) < TopicCap THEN Len(unique_topics) ELSE TopicCap)

\* [f"- {i.strip()}\n" for i in items if i.strip()]
RECURSIVE bullet_lines(_)
bullet_lines(items) ==
    IF items = <<>> THEN <<>>
    ELSE (IF strip(Head(items)) # <<>>
          THEN << <<"-"," ">> \o strip(Head(items)) \o <<"\n">> >>
          ELSE <<>>) \o bullet_lines(Tail(items))

title_line(title) == <<"#","#","#"," ">> \o title \o <<"\n">>

build_subsection(title, items) ==
    IF items = <<>> THEN <<>>
    ELSE <<title_line(title)>> \o bullet_lines(items) \o << <<"\n">> >>

\* getattr(suggestions, attr), with the recap turned into topics
items_of(suggestions, attr) ==
    CASE attr = "recap_topics" -> _recap_to_topics(suggestions.recap)
      [] attr = "actions" -> suggestions.actions
      [] attr = "decisions" -> suggestions.decisions

\* The block of a new section: the header line and its subsections
RECURSIVE new_subsections(_, _)
new_subsections(suggestions, k) ==
    IF k > Len(SUBSECTIONS) THEN <<>>
    ELSE build_subsection(SUBSECTIONS[k][1], items_of(suggestions, SUBSECTIONS[k][2]))
            \o new_subsections(suggestions, k + 1)

\* Mutant of insertion_index: the heading is not looked for, the section
\* goes to the very top
insertion_index_top(lines) == 0

\* Mutant of insertion_index: the section goes below every line
insertion_index_end(lines) == Len(lines)

\* Where a new section goes: the number of lines that stay above it
insertion_index(lines) ==
    IF lines # <<>> /\ startswith(lstrip(lines[1]), <<"#"," ">>)
    THEN LET stop == {i \in 2..Len(lines) : strip(lines[i]) # <<>>}
         IN  IF stop = {} THEN Len(lines) ELSE MinOf(stop) - 1
    ELSE 0

insert_section(lines, header_line, suggestions) ==
    LET block0 == <<header_line \o <<"\n">> >> \o new_subsections(suggestions, 1)
        block1 == IF ~endswith(block0[Len(block0)], <<"\n">>)
                  THEN Append(block0, <<"\n">>) ELSE block0
        insert_idx == insertion_index(lines)
        block2 == IF insert_idx < Len(lines) /\ strip(lines[insert_idx + 1]) # <<>>
                  THEN << <<"\n">> >> \o block1 ELSE block1
        block3 == IF insert_idx > 0 /\ strip(lines[insert_idx]) # <<>>
                  THEN << <<"\n">> >> \o block2 ELSE block2
    IN  SubSeq(lines, 1, insert_idx) \o block3 \o SubSeq(lines, insert_idx + 1, Len(lines))

\* The subsection `title` among section_lines: <<sub_start, last>> are its
\* '### ' line and its last line (1-based), <<0, 0>> when no line starts it
find_subsection(section_lines, title) ==
    LET hits == {i \in 1..Len(section_lines) :
                    startswith(section_lines[i], <<"#","#","#"," ">> \o title)}
    IN  IF hits = {} THEN <<0, 0>>
        ELSE LET sub_start == MinOf(hits)
                 ends == {k \in (sub_start + 1)..Len(section_lines) :
                             \/ startswith(section_lines[k], <<"#","#","#"," ">>)
                             \/ startswith(section_lines[k], <<"#","#"," ">>)}
             IN  <<sub_start, IF ends = {} THEN Len(section_lines) ELSE MinOf(ends) - 1>>

\* One turn of the loop over SUBSECTIONS for an existing section;
\* st = [section_lines, modified]
merge_subsection(st, title, items) ==
    IF items = <<>> THEN st
    ELSE
    LET sl == st.section_lines
        sub == find_subsection(sl, title)
    IN  IF sub[1] = 0
        THEN LET closed == IF Len(sl) > 0 /\ ~endswith(sl[Len(sl)], <<"\n">>)
                           THEN Append(sl, <<"\n">>) ELSE sl
             IN  [section_lines |->
                      closed \o <<title_line(title)>> \o bullet_lines(items) \o << <<"\n">> >>,
                  modified |-> TRUE]
        ELSE LET bullets == SubSeq(sl, sub[1] + 1, sub[2])
                 merged == _merge_bullets(bullets, items)
             IN  IF merged # bullets
                 THEN [section_lines |->
                          SubSeq(sl, 1, sub[1]) \o merged \o SubSeq(sl, sub[2] + 1, Len(sl)),
                       modified |-> TRUE]
                 ELSE st

RECURSIVE merge_subsections(_, _, _)
merge_subsections(st, suggestions, k) ==
    IF k > Len(SUBSECTIONS) THEN st
    ELSE merge_subsections(
            merge_subsection(st, SUBSECTIONS[k][1], items_of(suggestions, SUBSECTIONS[k][2])),
            suggestions, k + 1)

\* What the file holds when it is read: a final line break is added
read_content(content) ==
    IF content # <<>> /\ ~endswith(content, <<"\n">>) THEN content \o <<"\n">> ELSE content

\* Mutant of upsert_meeting_section: the merged section is written back
\* without the lines that follow it
upsert_meeting_section_cut(content, date, name, meeting_id, suggestions) ==
    LET header_line == SECTION_TEMPLATE(date, name, meeting_id)
        lines == splitlines(read_content(content))
        bounds == _find_section_bounds(lines, header_line)
    IN  IF bounds[1] = 0
        THEN [modified |-> TRUE,
              content |-> join(insert_section(lines, header_line, suggestions))]
        ELSE LET st == merge_subsections(
                           [section_lines |-> SubSeq(lines, bounds[1], bounds[2]),
                            modified |-> FALSE], suggestions, 1)
             IN  IF st.modified
                 THEN [modified |-> TRUE,
                       content |-> join(SubSeq(lines, 1, bounds[1] - 1)
                                          \o st.section_lines)]
                 ELSE [modified |-> FALSE, content |-> content]

\* upsert_meeting_section on a file holding `content`:
\* [modified |-> the value returned, content |-> the file afterwards]
upsert_meeting_section(content, date, name, meeting_id, suggestions) ==
    LET header_line == SECTION_TEMPLATE(date, name, meeting_id)
        lines == splitlines(read_content(content))
        bounds == _find_section_bounds(lines, header_line)
    IN  IF bounds[1] = 0
        THEN [modified |-> TRUE,
              content |-> join(insert_section(lines, header_line, suggestions))]
        ELSE LET st == merge_subsections(
                           [section_lines |-> SubSeq(lines, bounds[1], bounds[2]),
                            modified |-> FALSE], suggestions, 1)
             IN  IF st.modified
                 THEN [modified |-> TRUE,
                       content |-> join(SubSeq(lines, 1, bounds[1] - 1)
                                          \o st.section_lines
                                          \o SubSeq(lines, bounds[2] + 1, Len(lines)))]
                 ELSE [modified |-> FALSE, content |-> content]

---------------------------------------------------------------------------
(* The inputs of the wiki engine.                                          *)

\* "2026-11-02": date_str of strftime("%Y-%m-%d")
Date1 == <<"2","0","2","6","-","1","1","-","0","2">>

NameSync == <<"S","y","n","c">>

NamePlan == <<"P","l","a","n">>

\* f"meeting_{int(datetime.now().timestamp())}"
Id1 == <<"m","e","e","t","i","n","g","_","1">>

Id2 == <<"m","e","e","t","i","n","g","_","2">>

ItemAb == <<"a","b">>

ItemCd == <<"c","d">>

ItemEf == <<"e","f">>

\* " cd ": the item "cd" with blanks around it
ItemCdPadded == <<" ","c","d"," ">>

\* "a\nb": an item of two lines
ItemTwoLines == <<"a","\n","b">>

ItemBlank == <<" ">>

\* "Go. No go."
RecapGo == <<"G","o","."," ","N","o"," ","g","o",".">>

Sugg(recap, decisions, actions, risks, open_questions) ==
    [recap |-> recap, decisions |-> decisions, actions |-> actions,
     risks |-> risks, open_questions |-> open_questions]

\* MeetingSuggestions.empty()
SgEmpty == Sugg(<<>>, <<>>, <<>>, <<>>, <<>>)

SgBasic == Sugg(RecapGo, <<ItemAb>>, <<ItemCd>>, <<>>, <<>>)

SgMore == Sugg(<<>>, <<>>, <<ItemEf, ItemCdPadded, ItemEf>>, <<>>, <<>>)

SgTwoLines == Sugg(<<>>, <<ItemTwoLines>>, <<>>, <<>>, <<>>)

SgRisk == Sugg(<<>>, <<>>, <<>>, <<ItemAb>>, <<>>)

SgBlank == Sugg(<<>>, <<>>, <<ItemBlank>>, <<>>, <<>>)

WikiSuggestions == {SgEmpty, SgBasic, SgMore, SgTwoLines, SgRisk, SgBlank}

\* (meeting name, meeting id) of the calls: a meeting, the same meeting
\* renamed, and another meeting
WikiTargets == {<<NameSync, Id1>>, <<NamePlan, Id1>>, <<NameSync, Id2>>}

\* "# P Wiki\n\n": the file ensure_project_wiki creates
DocFresh == <<"#"," ","P"," ","W","i","k","i","\n","\n">>

\* The file ProjectManager._initialize_wiki creates
DocProject ==
    <<"#"," ","P"," ","P","r","o","j","e","c","t"," ","W","i","k","i","\n","\n",
      "#","#"," ","M","e","e","t","i","n","g"," ","H","i","s","t","o","r","y","\n","\n",
      "-","-","-","\n">>

\* A wiki with the section of meeting_1 ("Sync"), whose "To Do" holds the
\* engine's bullet "cd" and the hand-written bullet "  - mine", and a
\* hand-written section below it
DocEdited ==
    DocFresh
      \o <<"#","#"," ","[">> \o Date1 \o <<"]"," ">> \o NameSync
      \o <<" "," ","<","!","-","-"," ","i","d",":">> \o Id1 \o <<" ","-","-",">","\n">>
      \o <<"#","#","#"," ","T","o"," ","D","o","\n">>
      \o <<"-"," ","c","d","\n">>
      \o <<" "," ","-"," ","m","i","n","e","\n">>
      \o <<"\n">>
      \o <<"#","#"," ","O","l","d","\n">>
      \o <<"-"," ","k","e","e","p","\n">>

\* "notes\n- ab": hand-written, no heading, no final line break
DocNotes == <<"n","o","t","e","s","\n","-"," ","a","b">>

\* The wiki files the engine starts from (<<>>: no file yet, or an empty one)
WikiDocs == {<<>>, DocFresh, DocProject, DocEdited, DocNotes}

\* The number of upsert calls in a run of the wiki engine
MaxCalls == 2

NoCall == [none |-> TRUE]

---------------------------------------------------------------------------
(* The main window (app/ui_main.py): status, record button, recorder and   *)
(* the workflow that runs on a worker thread after a recording is stopped. *)
(* A meeting id "meeting_<timestamp>" is modelled by the number of the     *)
(* recording that made it; the files on disk are modelled by the meeting   *)
(* ids they hold, the journal by the number of its entries.                *)

\* The number of recordings the user starts
MaxMeetings == 2

\* The number of recordings the user stops, each stop starting one run of
\* the workflow
MaxRuns == 1

AppStatus ==
    {"Ready", "Recording", "ProcessingTranscript", "GeneratingSummary",
     "UpdatingWiki", "Saved", "Error"}

\* auto_reset_seconds = None
None == 0

\* MainWindow._set_button_states(state): the record toggle button
_set_button_states(state) ==
    CASE state = "recording" -> [enabled |-> TRUE, checked |-> TRUE]
      [] state = "processing" -> [record_toggle_btn EXCEPT !.enabled = FALSE]
      [] OTHER -> [enabled |-> TRUE, checked |-> FALSE]

\* MainWindow._set_status(status, auto_reset_seconds)
_set_status(new_status, auto_reset_seconds) ==
    /\ status' = new_status
    /\ record_toggle_btn' =
           CASE new_status \in {"Ready", "Saved"} -> _set_button_states("ready")
             [] new_status = "Recording" -> _set_button_states("recording")
             [] new_status \in {"ProcessingTranscript", "GeneratingSummary", "UpdatingWiki"} ->
                    [_set_button_states("processing") EXCEPT !.checked = FALSE]
             [] OTHER -> _set_button_states("error")
    /\ _status_reset_timer' = (auto_reset_seconds # None)

NoFiles ==
    [transcripts |-> {}, json_notes |-> {}, history |-> {}, index |-> {},
     wiki |-> {}, journal |-> 0]

\* MainWindow.__init__: the window right after construction
MainWindowInit ==
    /\ status = "Ready"
    /\ record_toggle_btn = [enabled |-> TRUE, checked |-> FALSE]
    /\ _status_reset_timer = FALSE
    /\ weekly_dialog = FALSE
    /\ wiki_editor = {}
    /\ _recorder = [_running |-> FALSE, _output_path |-> None, alive |-> FALSE]
    /\ _current_meeting_id = None
    /\ _last_audio_path = None
    /\ _transcribing = FALSE
    /\ _history = {}
    /\ single_shots = 0
    /\ ui_set_status = <<>>
    /\ complete_workflow = <<>>
    /\ log = <<>>
    /\ recordings = 0
    /\ stop_failed = {}
    /\ disk = NoFiles

\* What the UI thread leaves alone when it only changes the status
workerVars ==
    <<_transcribing, _history, ui_set_status, complete_workflow, log, disk>>

\* MainWindow._start_recording, entered with the button just checked
_start_recording ==
    IF _recorder._running
    THEN /\ record_toggle_btn' = [record_toggle_btn EXCEPT !.checked = TRUE]
         /\ UNCHANGED <<status, _status_reset_timer, _recorder,
                        _current_meeting_id, recordings>>
    ELSE /\ recordings < MaxMeetings
         /\ recordings' = recordings + 1
         /\ _current_meeting_id' = recordings + 1
         /\ \E started \in {"ok", "no_pyaudio", "no_device"} :
              /\ _recorder' =
                     CASE started = "ok" ->
                              [_running |-> TRUE, _output_path |-> recordings + 1,
                               alive |-> TRUE]
                       [] started = "no_device" ->
                              [_recorder EXCEPT !._output_path = recordings + 1]
                       [] OTHER -> _recorder
              /\ IF started = "ok"
                 THEN _set_status("Recording", None)
                 ELSE _set_status("Error", 5)

\* Mutant of recorder_stop: the result of the join is not looked at
recorder_stop_unjoined(joined) ==
    [ok |-> TRUE,
     recorder |-> [_recorder EXCEPT !._running = FALSE,
                                    !.alive = _recorder.alive /\ ~joined]]

\* PyAudioRecorder.stop(): FALSE when the capture thread outlives the join
recorder_stop(joined) ==
    [ok |-> ~_recorder.alive \/ joined,
     recorder |-> [_recorder EXCEPT !._running = FALSE,
                                    !.alive = _recorder.alive /\ ~joined]]

\* MainWindow._stop_recording_and_process, entered with the button just unchecked
_stop_recording_and_process ==
    \E joined \in BOOLEAN :
        LET r == recorder_stop(joined)
        IN  /\ _recorder' = r.recorder
            /\ stop_failed' = IF r.ok THEN stop_failed
                               ELSE stop_failed \cup {_recorder._output_path}
            /\ IF ~r.ok
               THEN /\ _set_status("Error", 5)
                    /\ UNCHANGED <<_last_audio_path, single_shots>>
               ELSE /\ _last_audio_path' = _recorder._output_path
                    /\ IF _recorder._output_path # None
                       THEN /\ _set_status("ProcessingTranscript", None)
                            /\ single_shots' = single_shots + 1
                       ELSE /\ _set_status("Ready", None)
                            /\ UNCHANGED single_shots

\* MainWindow._on_record_toggle_clicked: a click on the enabled button
\* toggles it and starts or stops the recording
_on_record_toggle_clicked ==
    /\ record_toggle_btn.enabled
    /\ ~weekly_dialog
    /\ IF ~record_toggle_btn.checked
       THEN /\ _start_recording
            /\ UNCHANGED <<_last_audio_path, single_shots, stop_failed>>
       ELSE /\ Len(complete_workflow) + single_shots < MaxRuns
            /\ _stop_recording_and_process
            /\ UNCHANGED <<_current_meeting_id, recordings>>
    /\ UNCHANGED <<serviceVars, weekly_dialog, wiki_editor, workerVars>>

\* PyAudioRecorder._run_loop leaves its loop once _running is false
_run_loop ==
    /\ _recorder.alive
    /\ ~_recorder._running
    /\ _recorder' = [_recorder EXCEPT !.alive = FALSE]
    /\ UNCHANGED <<serviceVars, stop_failed, uiVars, _current_meeting_id, _last_audio_path, single_shots,
                   recordings, workerVars>>

\* One entry of a run's log: the operation, the meeting it was done for
\* (None when it names none) and how it ended
Event(op, arg, result) == [op |-> op, arg |-> arg, result |-> result]

\* self.ui_set_status.emit(status, ...) as a log entry
Emitted(s) == Event("emit", None, s)

\* The auto-reset seconds the worker passes with a status it emits
worker_reset_seconds(s) == IF s = "Error" THEN 5 ELSE IF s = "Saved" THEN 3 ELSE None

\* The signal emissions among the events of a worker step, in order
signals_of(events) ==
    LET IsEmit(e) == e.op = "emit"
        em == SelectSeq(events, IsEmit)
    IN  [i \in 1..Len(em) |->
            [status |-> em[i].result, secs |-> worker_reset_seconds(em[i].result)]]

\* MainWindow._start_complete_workflow, called by the 100 ms single-shot
\* timer that _stop_recording_and_process armed
_start_complete_workflow ==
    /\ single_shots > 0
    /\ single_shots' = single_shots - 1
    /\ IF _last_audio_path = None
       THEN /\ _set_status("Error", None)
            /\ UNCHANGED <<_transcribing, complete_workflow, log>>
       ELSE /\ _transcribing' = TRUE
            /\ complete_workflow' = Append(complete_workflow, "transcribe")
            /\ log' = Append(log, <<Event("recorder_stop", _last_audio_path, "ok")>>)
            /\ UNCHANGED <<status, record_toggle_btn, _status_reset_timer>>
    /\ UNCHANGED <<serviceVars, stop_failed, weekly_dialog, wiki_editor, _recorder, _current_meeting_id,
                   _last_audio_path, _history, ui_set_status, recordings, disk>>

\* The slot connected to ui_set_status runs on the UI thread, one queued
\* emission at a time, in the order of emission
ui_set_status_slot ==
    /\ ui_set_status # <<>>
    /\ _set_status(Head(ui_set_status).status, Head(ui_set_status).secs)
    /\ ui_set_status' = Tail(ui_set_status)
    /\ UNCHANGED <<serviceVars, stop_failed, weekly_dialog, wiki_editor, _recorder, _current_meeting_id,
                   _last_audio_path, _transcribing, _history, single_shots,
                   complete_workflow, log, recordings, disk>>

\* Mutant of _status_reset_timeout: the timer fires and the status stays
_status_reset_timeout_stuck ==
    /\ _status_reset_timer
    /\ _status_reset_timer' = FALSE
    /\ UNCHANGED <<serviceVars, stop_failed, status, record_toggle_btn, weekly_dialog, wiki_editor,
                   _recorder, _current_meeting_id, _last_audio_path, single_shots, recordings,
                   workerVars>>

\* _status_reset_timer.timeout: back to Ready
_status_reset_timeout ==
    /\ _status_reset_timer
    /\ _set_status("Ready", None)
    /\ UNCHANGED <<serviceVars, stop_failed, weekly_dialog, wiki_editor, _recorder, _current_meeting_id,
                   _last_audio_path, single_shots, recordings, workerVars>>

\* MainWindow._on_weekly_clicked up to dlg.exec_(): the summary is built and
\* the modal preview opens, or building it fails
_on_weekly_clicked ==
    /\ ~weekly_dialog
    /\ \E built \in BOOLEAN :
         IF built
         THEN /\ _set_status("UpdatingWiki", None)
              /\ weekly_dialog' = TRUE
         ELSE /\ _set_status("Error", None)
              /\ UNCHANGED weekly_dialog
    /\ UNCHANGED <<serviceVars, stop_failed, wiki_editor, _recorder, _current_meeting_id, _last_audio_path,
                   single_shots, recordings, workerVars>>

\* MainWindow._on_weekly_clicked after dlg.exec_() returned
_on_weekly_closed ==
    /\ weekly_dialog
    /\ weekly_dialog' = FALSE
    /\ _set_status("Saved", 3)
    /\ UNCHANGED <<serviceVars, stop_failed, wiki_editor, _recorder, _current_meeting_id, _last_audio_path,
                   single_shots, recordings, workerVars>>

\* MainWindow._on_wiki_save: the editor's text replaces the wiki file
_on_wiki_save ==
    /\ ~weekly_dialog
    /\ \E written \in BOOLEAN :
         IF written
         THEN /\ disk' = [disk EXCEPT !.wiki = wiki_editor]
              /\ _set_status("Saved", 3)
         ELSE /\ UNCHANGED disk
              /\ _set_status("Error", None)
    /\ UNCHANGED <<serviceVars, stop_failed, weekly_dialog, wiki_editor, _recorder, _current_meeting_id,
                   _last_audio_path, _transcribing, _history, single_shots,
                   ui_set_status, complete_workflow, log, recordings>>

\* An index entry: update_index_with_meeting names it by the meeting id,
\* build_project_index by the stem of the notes file it scanned
IndexEntry(meeting_id, scanned) == [meeting_id |-> meeting_id, scanned |-> scanned]

\* MeetingIndexBuilder.build_project_index(project, force_rebuild=False):
\* the entries of the index, and one more for every scanned notes file
\* whose stem is not yet the id of an entry
build_project_index(index, json_notes) ==
    index \cup {IndexEntry(m, TRUE) : m \in json_notes}

\* MainWindow._on_tab_changed(index): the Wiki tab loads the wiki file into
\* the editor, the Meetings tab loads the meetings list from the index
_on_tab_changed(index) ==
    /\ ~weekly_dialog
    /\ wiki_editor' = IF index = 1 THEN disk.wiki ELSE wiki_editor
    /\ disk' = IF index = 2
               THEN [disk EXCEPT !.index = build_project_index(disk.index, disk.json_notes)]
               ELSE disk
    /\ UNCHANGED <<serviceVars, stop_failed, status, record_toggle_btn, _status_reset_timer, weekly_dialog,
                   _recorder, _current_meeting_id, _last_audio_path, _transcribing,
                   _history, single_shots, ui_set_status, complete_workflow, log,
                   recordings>>

---------------------------------------------------------------------------
(* complete_workflow, the function the worker thread runs.  Each step is   *)
(* one backend call or one persist function; the UI thread runs between    *)
(* the steps.                                                              *)

\* Mutant of worker_step: complete_workflow has no finally block
worker_step_no_finally(r, events, next_pc) ==
    /\ log' = [log EXCEPT ![r] = @ \o events]
    /\ ui_set_status' = ui_set_status \o signals_of(events)
    /\ complete_workflow' = [complete_workflow EXCEPT ![r] = next_pc]
    /\ _transcribing' = _transcribing

\* What a worker step does to its own run: the events go to the run's log,
\* its emissions are queued for the UI thread, and the finally block clears
\* the in-progress flag when the function returns
worker_step(r, events, next_pc) ==
    /\ log' = [log EXCEPT ![r] = @ \o events]
    /\ ui_set_status' = ui_set_status \o signals_of(events)
    /\ complete_workflow' = [complete_workflow EXCEPT ![r] = next_pc]
    /\ _transcribing' = IF next_pc = "done" THEN FALSE ELSE _transcribing

\* Mutant of transcript_produced: the text the backend returned is not
\* checked for being empty
transcript_produced_unchecked(outcome) == outcome \in {"text", "empty"}

\* The test of the transcript text: an exception, None or a blank text
\* leaves the try block through one of its except clauses
transcript_produced(outcome) == outcome = "text"

\* Steps 2 and 3: backend.transcribe(self._last_audio_path)
transcribe(r) ==
    /\ complete_workflow[r] = "transcribe"
    /\ \E outcome \in {"text", "empty", "unavailable", "error"} :
         worker_step(r,
             <<Emitted("ProcessingTranscript"),
               Event("transcribe", _last_audio_path, outcome)>>
             \o (IF transcript_produced(outcome) THEN <<>> ELSE <<Emitted("Error")>>),
             IF transcript_produced(outcome) THEN "save_transcript" ELSE "done")
    /\ UNCHANGED <<serviceVars, stop_failed, uiVars, _recorder, _current_meeting_id, _last_audio_path,
                   _history, single_shots, recordings, disk>>

\* MeetingHistory.add_or_update(rec): a record of that id keeps its
\* json_notes_path, a new record has none
add_or_update(records, meeting_id) ==
    IF \E rec \in records : rec.meeting_id = meeting_id
    THEN records
    ELSE records \cup {[meeting_id |-> meeting_id, json_notes_path |-> FALSE]}

\* MainWindow._save_transcript(transcript_text), then step 4
_save_transcript(r) ==
    /\ complete_workflow[r] = "save_transcript"
    /\ IF _current_meeting_id = None
       THEN /\ worker_step(r, <<Emitted("GeneratingSummary")>>, "generate")
            /\ UNCHANGED <<_history, disk>>
       ELSE \E outcome \in {"saved", "write_failed", "history_failed"} :
              /\ _history' = IF outcome = "write_failed"
                             THEN _history
                             ELSE add_or_update(_history, _current_meeting_id)
              /\ disk' =
                     CASE outcome = "write_failed" -> disk
                       [] outcome = "history_failed" ->
                              [disk EXCEPT !.transcripts = @ \cup {_current_meeting_id}]
                       [] OTHER ->
                              [disk EXCEPT !.transcripts = @ \cup {_current_meeting_id},
                                           !.history = _history']
              /\ worker_step(r,
                     <<Event("save_transcript", _current_meeting_id, outcome)>>
                     \o (IF outcome = "saved"
                         THEN <<Emitted("GeneratingSummary")>>
                         ELSE <<Emitted("Error")>>),
                     IF outcome = "saved" THEN "generate" ELSE "done")
    /\ UNCHANGED <<serviceVars, stop_failed, uiVars, _recorder, _current_meeting_id, _last_audio_path,
                   single_shots, recordings>>

\* Mutant of generate: the except clauses of step 5 emit Error and do not
\* return, so that the save steps follow
generate_no_return(r) ==
    /\ complete_workflow[r] = "generate"
    /\ \E outcome \in {"suggestions", "unavailable", "error"} :
         worker_step(r,
             <<Event("generate", None, outcome)>>
             \o (IF outcome = "suggestions" THEN <<>> ELSE <<Emitted("Error")>>)
             \o <<Emitted("UpdatingWiki")>>,
             "save_notes")
    /\ UNCHANGED <<serviceVars, stop_failed, uiVars, _recorder, _current_meeting_id, _last_audio_path,
                   _history, single_shots, recordings, disk>>

\* Step 5: SuggestionGenerator().generate(transcript_text), then step 6
generate(r) ==
    /\ complete_workflow[r] = "generate"
    /\ \E outcome \in {"suggestions", "unavailable", "error"} :
         worker_step(r,
             <<Event("generate", None, outcome)>>
             \o (IF outcome = "suggestions"
                 THEN <<Emitted("UpdatingWiki")>>
                 ELSE <<Emitted("Error")>>),
             IF outcome = "suggestions" THEN "save_notes" ELSE "done")
    /\ UNCHANGED <<serviceVars, stop_failed, uiVars, _recorder, _current_meeting_id, _last_audio_path,
                   _history, single_shots, recordings, disk>>

\* MeetingIndexBuilder.update_index_with_meeting: the entry of that meeting
\* id is replaced by a new one
update_index_with_meeting(index, meeting_id) ==
    (index \ {IndexEntry(meeting_id, FALSE)}) \cup {IndexEntry(meeting_id, FALSE)}

\* The writes of _save_json_notes_and_update_index in their order: the notes
\* file, the history record and file, the index entry.  A write that fails
\* ends the function.
json_notes_effects(meeting_id, outcome) ==
    LET notes == outcome # "notes_failed"
        history == notes /\ outcome # "history_failed"
        index == history /\ outcome # "index_failed"
        records == {IF rec.meeting_id = meeting_id
                    THEN [rec EXCEPT !.json_notes_path = TRUE]
                    ELSE rec : rec \in _history}
    IN  [records |-> IF notes THEN records ELSE _history,
         disk |-> [disk EXCEPT
                     !.json_notes = IF notes THEN @ \cup {meeting_id} ELSE @,
                     !.history = IF history THEN records ELSE @,
                     !.index = IF index THEN update_index_with_meeting(@, meeting_id) ELSE @],
         events |->
             <<Event("json_notes", meeting_id, IF notes THEN "written" ELSE "failed")>>
             \o (IF notes
                 THEN <<Event("history", meeting_id, IF history THEN "saved" ELSE "failed")>>
                 ELSE <<>>)
             \o (IF history
                 THEN <<Event("index", meeting_id, IF index THEN "updated" ELSE "failed")>>
                 ELSE <<>>)]

\* Mutant of _save_json_notes_and_update_index: a failed index update is
\* raised to the caller
_save_json_notes_and_update_index_raising(meeting_id, outcome) ==
    [done |-> json_notes_effects(meeting_id, outcome),
     raised |-> outcome = "index_failed"]

\* MainWindow._save_json_notes_and_update_index(project, suggestions): its
\* body is one try block whose except clause logs the exception, and
\* update_index_with_meeting catches its own, so nothing is raised
_save_json_notes_and_update_index(meeting_id, outcome) ==
    [done |-> json_notes_effects(meeting_id, outcome),
     raised |-> FALSE]

\* Step 7 of _complete_save_workflow
save_notes(r) ==
    /\ complete_workflow[r] = "save_notes"
    /\ IF _current_meeting_id = None
       THEN /\ worker_step(r, <<>>, "upsert_wiki")
            /\ UNCHANGED <<_history, disk>>
       ELSE \E outcome \in {"ok", "notes_failed", "history_failed", "index_failed"} :
              LET res == _save_json_notes_and_update_index(_current_meeting_id, outcome)
              IN  /\ _history' = res.done.records
                  /\ disk' = res.done.disk
                  /\ IF res.raised
                     THEN worker_step(r, res.done.events \o <<Emitted("Error")>>, "done")
                     ELSE worker_step(r, res.done.events, "upsert_wiki")
    /\ UNCHANGED <<serviceVars, stop_failed, uiVars, _recorder, _current_meeting_id, _last_audio_path,
                   single_shots, recordings>>

\* Step 8 of _complete_save_workflow: upsert_meeting_section for the
\* current meeting id
upsert_wiki(r) ==
    /\ complete_workflow[r] = "upsert_wiki"
    /\ \E written \in BOOLEAN :
         /\ disk' = IF written
                    THEN [disk EXCEPT !.wiki = @ \cup {_current_meeting_id}]
                    ELSE disk
         /\ IF written
            THEN worker_step(r, <<Event("wiki", _current_meeting_id, "written")>>,
                             "journal")
            ELSE worker_step(r, <<Event("wiki", _current_meeting_id, "failed"),
                                  Emitted("Error")>>, "done")
    /\ UNCHANGED <<serviceVars, stop_failed, uiVars, _recorder, _current_meeting_id, _last_audio_path,
                   _history, single_shots, recordings>>

\* Step 9 of _complete_save_workflow: ensure_journal_date_section and
\* append_journal_entry; then step 10, the Saved status
journal(r) ==
    /\ complete_workflow[r] = "journal"
    /\ \E written \in BOOLEAN :
         /\ disk' = IF written THEN [disk EXCEPT !.journal = @ + 1] ELSE disk
         /\ IF written
            THEN worker_step(r, <<Event("journal", None, "written"),
                                  Emitted("Saved")>>, "done")
            ELSE worker_step(r, <<Event("journal", None, "failed"),
                                  Emitted("Error")>>, "done")
    /\ UNCHANGED <<serviceVars, stop_failed, uiVars, _recorder, _current_meeting_id, _last_audio_path,
                   _history, single_shots, recordings>>


---------------------------------------------------------------------------
(* services/journal.py                                                     *)

\* "# Journal\n\n": the file ensure_journal_date_section creates
JournalTitle == <<"#"," ","J","o","u","r","n","a","l","\n","\n">>

\* No Journal_wiki.md yet
NoJournal == [exists |-> FALSE, content |-> <<>>]

\* f"## {date_str}\n"
date_header(date_str) == <<"#","#"," ">> \o date_str \o <<"\n">>

\* sub in content
contains(content, sub) ==
    \E i \in 1..(Len(content) - Len(sub) + 1) :
        SubSeq(content, i, i + Len(sub) - 1) = sub

\* ensure_journal_date_section: the text of the file when the call returns
ensure_journal_date_section(file, date_str) ==
    LET on_disk == IF file.exists THEN file.content ELSE JournalTitle
        content == IF endswith(on_disk, <<"\n">>) THEN on_disk
                   ELSE on_disk \o <<"\n">>
        header  == date_header(date_str)
    IN  IF ~contains(content, header)
        THEN content \o header \o <<"\n">>
        ELSE on_disk

\* lines.index(header_line), 1-based; 0 stands for the ValueError
RECURSIVE index_of(_, _, _)
index_of(lines, line, i) ==
    IF i > Len(lines) THEN 0
    ELSE IF lines[i] = line THEN i ELSE index_of(lines, line, i + 1)

\* The while loop that skips the blank lines from position i on
RECURSIVE skip_blank(_, _)
skip_blank(lines, i) ==
    IF i <= Len(lines) /\ strip(lines[i]) = <<>>
    THEN skip_blank(lines, i + 1) ELSE i

\* The character U+2014 of the entry line (one character of the text)
EmDash == "--"

\* f"- [{now_hhmm}] {project} — {meeting}: {recap_one_line.strip()}\n"
entry_line(now_hhmm, project, meeting, recap_one_line) ==
    <<"-"," ","[">> \o now_hhmm \o <<"]"," ">> \o project
        \o <<" ", EmDash, " ">> \o meeting \o <<":"," ">>
        \o strip(recap_one_line) \o <<"\n">>

\* f"  - {d}\n" for every detail that is not blank
RECURSIVE detail_lines(_)
detail_lines(details_bullets) ==
    IF details_bullets = <<>> THEN <<>>
    ELSE LET d == strip(Head(details_bullets))
         IN  (IF d # <<>> THEN << <<" "," ","-"," ">> \o d \o <<"\n">> >> ELSE <<>>)
                 \o detail_lines(Tail(details_bullets))

\* Mutant of insertion_point: the entry goes to the end of the file
insertion_point_at_end(lines, idx) == Len(lines) + 1

\* The line the entry is inserted before (1-based), idx being the header's line
insertion_point(lines, idx) == skip_blank(lines, idx + 1)

\* Mutant of inserted_block: an entry whose text is already at the insertion
\* point is not written again
inserted_block_once(lines, at, block) ==
    IF at + Len(block) - 1 <= Len(lines)
           /\ SubSeq(lines, at, at + Len(block) - 1) = block
    THEN <<>> ELSE block

\* The lines the call inserts at position at
inserted_block(lines, at, block) == block

\* append_journal_entry: [content, at, count]: the text written, the line the
\* entry was inserted at and the number of lines the insertion added to the
\* file as it is read back
append_journal_entry(file, date_str, now_hhmm, project, meeting, recap_one_line, details_bullets) ==
    LET read        == splitlines(ensure_journal_date_section(file, date_str))
        header_line == date_header(date_str)
        found       == index_of(read, header_line, 1)
        lines       == IF found = 0 THEN Append(read, header_line) ELSE read
        idx         == IF found = 0 THEN Len(lines) ELSE found
        insertion_idx == insertion_point(lines, idx)
        entry       == entry_line(now_hhmm, project, meeting, recap_one_line)
        block       == inserted_block(lines, insertion_idx,
                           <<entry>> \o detail_lines(details_bullets) \o << <<"\n">> >>)
        written     == join(SubSeq(lines, 1, insertion_idx - 1) \o block
                                \o SubSeq(lines, insertion_idx, Len(lines)))
    IN  [content |-> written,
         at      |-> insertion_idx,
         count   |-> Len(splitlines(written)) - Len(lines)]

\* The calls of the journal state machine
Date2 == <<"2","0","2","6","-","1","1","-","0","3">>

JournalDates == {Date1, Date2}

\* datetime.now().strftime("%H:%M"): the calls are made within one minute
Time1 == <<"0","9",":","0","0">>

JournalTimes == {Time1}

ProjectP == <<"P">>

\* "Go.\n## 2026-11-02": a recap whose second line reads as a date header
RecapDated == <<"G","o",".","\n">> \o <<"#","#"," ">> \o Date1

\* " Go. \nNo go.\n": a recap of two lines with blanks around it
RecapTwoLines == <<" ","G","o","."," ","\n","N","o"," ","g","o",".","\n">>

JournalRecaps == {RecapGo, RecapTwoLines, RecapDated}

\* None, and a list with a blank detail
JournalDetails == {<<>>, <<ItemAb, ItemBlank, ItemCd>>}

NoJournalCall == [op |-> "none"]

\* The number of journal calls in a run of the journal state machine
MaxJournalCalls == 3

JournalIdle ==
    /\ journal_file = NoJournal
    /\ j_prev = NoJournal
    /\ j_call = NoJournalCall
    /\ j_repeat = FALSE
    /\ j_dates = {}
    /\ j_entries = <<>>
    /\ j_calls = 0

---------------------------------------------------------------------------
(* services/meeting_index.py: the persisted index of one project.          *)

\* "meeting_<n>" (suffix "") and "meeting_<n>_notes" (suffix "_notes")
MeetingId(n, suffix) == [n |-> n, suffix |-> suffix]

\* int(meeting_id.replace("meeting_", "").replace("_notes", ""))
timestamp_of(meeting_id) == meeting_id.n

\* The four lists of a notes file
Notes(decisions, action_items, risks, open_questions) ==
    [decisions |-> decisions, action_items |-> action_items,
     risks |-> risks, open_questions |-> open_questions]

\* The lists from_meeting_data starts from
EmptyNotes == Notes(<<>>, <<>>, <<>>, <<>>)

NotesA == Notes(<<ItemAb>>, <<ItemCd>>, <<>>, <<>>)

NotesB == Notes(<<ItemAb, ItemEf>>, <<>>, <<ItemCd>>, <<ItemEf>>)

NotesContents == {NotesA, NotesB}

\* meeting_<n>_notes.json is not there
NoNotesFile == [exists |-> FALSE, data |-> EmptyNotes]

NotesFile(data) == [exists |-> TRUE, data |-> data]

\* MeetingIndexEntry.from_meeting_data: a file that cannot be opened leaves
\* the four lists empty
from_meeting_data(meeting_id, project_name, json_file) ==
    LET data == IF json_file.exists THEN json_file.data ELSE EmptyNotes
    IN  [meeting_id     |-> meeting_id,
         timestamp      |-> timestamp_of(meeting_id),
         project_name   |-> project_name,
         decisions      |-> data.decisions,
         action_items   |-> data.action_items,
         risks          |-> data.risks,
         open_questions |-> data.open_questions]

\* Where a stable sort by timestamp, newest first, puts entry e among the
\* sorted entries: behind every entry that is not older than e
RECURSIVE insert_newest_first(_, _)
insert_newest_first(sorted, e) ==
    IF sorted = <<>> THEN <<e>>
    ELSE IF Head(sorted).timestamp >= e.timestamp
         THEN <<Head(sorted)>> \o insert_newest_first(Tail(sorted), e)
         ELSE <<e>> \o sorted

\* Mutant of sort_newest_first: the list is left in the order it has
sort_unsorted(meetings) == meetings

\* meetings.sort(key=lambda m: m.timestamp, reverse=True)
RECURSIVE sort_newest_first(_)
sort_newest_first(meetings) ==
    IF meetings = <<>> THEN <<>>
    ELSE insert_newest_first(
             sort_newest_first(SubSeq(meetings, 1, Len(meetings) - 1)),
             meetings[Len(meetings)])

\* No meetings_index.json yet
NoIndex == [exists |-> FALSE, created_at |-> 0, updated_at |-> 0,
            total_meetings |-> 0, meetings |-> <<>>]

\* [m for m in meetings if m.meeting_id != meeting_id]
RECURSIVE without(_, _)
without(meetings, meeting_id) ==
    IF meetings = <<>> THEN <<>>
    ELSE (IF Head(meetings).meeting_id # meeting_id THEN <<Head(meetings)>> ELSE <<>>)
             \o without(Tail(meetings), meeting_id)

\* {m.meeting_id for m in meetings}
meeting_ids(meetings) == {meetings[i].meeting_id : i \in DOMAIN meetings}

\* _scan_meeting_files: the stem of every meeting_*_notes.json is taken as
\* the meeting id
_scan_meeting_files(notes_dir) ==
    {MeetingId(n, "_notes") : n \in {k \in DOMAIN notes_dir : notes_dir[k].exists}}

\* The loop over the scanned files from number n on: an entry is appended
\* for every scanned id that is not among the existing ids
RECURSIVE scan_loop(_, _, _, _, _)
scan_loop(new_meetings, existing_meeting_ids, notes_dir, project_name, n) ==
    IF n \notin DOMAIN notes_dir THEN new_meetings
    ELSE LET meeting_id == MeetingId(n, "_notes")
             added == meeting_id \in _scan_meeting_files(notes_dir)
                          /\ meeting_id \notin existing_meeting_ids
         IN  scan_loop(IF added
                       THEN Append(new_meetings,
                                   from_meeting_data(meeting_id, project_name, notes_dir[n]))
                       ELSE new_meetings,
                       existing_meeting_ids, notes_dir, project_name, n + 1)

\* The existing index build_project_index starts from (NoIndex stands for None)
existing_of(file, force_rebuild) ==
    IF ~force_rebuild /\ file.exists THEN file ELSE NoIndex

\* Mutant of kept_meetings: the entries of the existing index are dropped
kept_meetings_none(existing_index) == <<>>

\* new_meetings = existing_index.meetings.copy()
kept_meetings(existing_index) == existing_index.meetings

\* MeetingIndexBuilder.build_project_index: the index it saves
builder_build_project_index(file, notes_dir, project_name, force_rebuild, now) ==
    LET existing_index == existing_of(file, force_rebuild)
        new_meetings   == scan_loop(kept_meetings(existing_index),
                                    meeting_ids(existing_index.meetings),
                                    notes_dir, project_name, 1)
        sorted         == sort_newest_first(new_meetings)
    IN  [exists         |-> TRUE,
         created_at     |-> IF existing_index.exists
                            THEN existing_index.created_at ELSE now,
         updated_at     |-> now,
         total_meetings |-> Len(sorted),
         meetings       |-> sorted]

\* Mutant of replaced: the entry of the meeting id is not removed first
replaced_kept(meetings, meeting_id) == meetings

\* The meetings update_index_with_meeting appends the new entry to
replaced(meetings, meeting_id) == without(meetings, meeting_id)

\* MeetingIndexBuilder.update_index_with_meeting: the index it saves; now is
\* datetime.now() when a new index is created, later when updated_at is set
builder_update_index_with_meeting(file, project_name, meeting_id, json_file, now, later) ==
    LET index  == IF file.exists THEN file
                  ELSE [NoIndex EXCEPT !.created_at = now, !.updated_at = now]
        entry  == from_meeting_data(meeting_id, project_name, json_file)
        sorted == sort_newest_first(Append(replaced(index.meetings, meeting_id), entry))
    IN  [exists         |-> TRUE,
         created_at     |-> index.created_at,
         updated_at     |-> later,
         total_meetings |-> Len(sorted),
         meetings       |-> sorted]

\* The meetings of the index state machine (the <n> of "meeting_<n>")
IndexMeetings == {1, 2}

\* The number of calls in a run of the index state machine
MaxIndexCalls == 5

NoIndexCall == [op |-> "none"]

IndexIdle ==
    /\ index_file = NoIndex
    /\ json_notes_dir = [n \in IndexMeetings |-> NoNotesFile]
    /\ idx_prev = NoIndex
    /\ idx_call = NoIndexCall
    /\ clock = 1
    /\ idx_calls = 0

---------------------------------------------------------------------------
(* services/meeting_index.py: the search over the entries of an index.     *)

UpperCase == <<"A","B","C","D","E","F","G","H","I","J","K","L","M","N","O","P","Q","R","S","T","U","V","W","X","Y","Z">>

LowerCase == <<"a","b","c","d","e","f","g","h","i","j","k","l","m","n","o","p","q","r","s","t","u","v","w","x","y","z">>

\* c.lower()
lower_char(c) ==
    IF \E i \in DOMAIN UpperCase : UpperCase[i] = c
    THEN LowerCase[CHOOSE i \in DOMAIN UpperCase : UpperCase[i] = c]
    ELSE c

\* s.lower()
lower(s) == [i \in 1..Len(s) |-> lower_char(s[i])]

\* s.split(): the runs of characters between white space, from position i on
RECURSIVE split(_, _)
split(s, i) ==
    LET b == first_not_in(s, i, Whitespace)
        e == first_in(s, b, Whitespace)
    IN  IF b > Len(s) THEN <<>>
        ELSE <<SubSeq(s, b, e - 1)>> \o split(s, e)

\* " ".join(items)
RECURSIVE join_blank(_)
join_blank(items) ==
    IF items = <<>> THEN <<>>
    ELSE IF Len(items) = 1 THEN Head(items)
         ELSE Head(items) \o <<" ">> \o join_blank(Tail(items))

Letters == {LowerCase[i] : i \in DOMAIN LowerCase}

\* The characters \w matches in a lower-case text
WordChars == Letters \cup {"0","1","2","3","4","5","6","7","8","9","_"}

\* The shortest keyword: {3,} of the pattern
MinKeywordLen == 3

\* max_keywords
MaxKeywords == 20

\* re.findall(r'\b[a-zA-Z]{3,}\b', text): the runs of word characters, from
\* position i on, that hold letters only and at least three of them
RECURSIVE findall_words(_, _)
findall_words(text, i) ==
    LET b == first_in(text, i, WordChars)
        e == first_not_in(text, b, WordChars)
        run == SubSeq(text, b, e - 1)
    IN  IF b > Len(text) THEN <<>>
        ELSE (IF Len(run) >= MinKeywordLen /\ \A k \in DOMAIN run : run[k] \in Letters
              THEN <<run>> ELSE <<>>) \o findall_words(text, e)

\* The stop words (those among them that the texts of the model can hold)
stop_words ==
    {<<"t","h","e">>,
     <<"a","n","d">>,
     <<"f","o","r">>,
     <<"s","e","e">>,
     <<"n","o","w">>,
     <<"n","e","w">>,
     <<"n","o","t">>,
     <<"a","l","l">>,
     <<"c","a","n">>,
     <<"o","n","e">>,
     <<"o","u","t">>,
     <<"g","e","t">>,
     <<"h","a","s">>,
     <<"h","o","w">>}

\* How often word is among words
count_of(words, word) == Cardinality({i \in DOMAIN words : words[i] = word})

\* Where a stable sort by frequency, most frequent first, puts word
RECURSIVE insert_by_freq(_, _, _)
insert_by_freq(sorted, word, words) ==
    IF sorted = <<>> THEN <<word>>
    ELSE IF count_of(words, Head(sorted)) >= count_of(words, word)
         THEN <<Head(sorted)>> \o insert_by_freq(Tail(sorted), word, words)
         ELSE <<word>> \o sorted

RECURSIVE sort_by_freq(_, _)
sort_by_freq(keys, words) ==
    IF keys = <<>> THEN <<>>
    ELSE insert_by_freq(sort_by_freq(SubSeq(keys, 1, Len(keys) - 1), words),
                        keys[Len(keys)], words)

\* MeetingIndexEntry._extract_keywords
_extract_keywords(text) ==
    LET found  == findall_words(lower(text), 1)
        NotStop(word) == word \notin stop_words
        words  == SelectSeq(found, NotStop)
        sorted == sort_by_freq(unique(words, {}), words)
    IN  SubSeq(sorted, 1, IF Len(sorted) < MaxKeywords THEN Len(sorted) ELSE MaxKeywords)

\* The text fields from_meeting_data adds to the entry: the name made of
\* the timestamp, the text of the transcript file and the keywords of all
\* the text
with_texts(entry, meeting_name, transcript_file) ==
    LET full_transcript == strip(transcript_file)
        all_text == join_blank(<<meeting_name,
                                 join_blank(entry.decisions),
                                 join_blank(entry.action_items),
                                 join_blank(entry.risks),
                                 join_blank(entry.open_questions),
                                 full_transcript>>)
    IN  [meeting_id      |-> entry.meeting_id,
         timestamp       |-> entry.timestamp,
         project_name    |-> entry.project_name,
         decisions       |-> entry.decisions,
         action_items    |-> entry.action_items,
         risks           |-> entry.risks,
         open_questions  |-> entry.open_questions,
         meeting_name    |-> meeting_name,
         full_transcript |-> full_transcript,
         keywords        |-> _extract_keywords(all_text)]

\* The factor of an exact phrase match
PhraseFactor == 10

\* search_fields: (text, weight) with the weights counted in halves, so
\* 3.0, 2.5, 2.5, 2.0, 2.0, 1.5 and 1.0 read 6, 5, 5, 4, 4, 3 and 2
search_fields(meeting) ==
    << <<lower(meeting.meeting_name), 6>>,
       <<lower(join_blank(meeting.decisions)), 5>>,
       <<lower(join_blank(meeting.action_items)), 5>>,
       <<lower(join_blank(meeting.risks)), 4>>,
       <<lower(join_blank(meeting.open_questions)), 4>>,
       <<lower(join_blank(meeting.keywords)), 3>>,
       <<lower(meeting.full_transcript), 2>> >>

\* What one field adds to the score
field_score(field_text, weight, query_lower, query_words) ==
    IF field_text = <<>> THEN 0
    ELSE (IF contains(field_text, query_lower) THEN weight * PhraseFactor ELSE 0)
         + weight * Cardinality({k \in DOMAIN query_words :
                                    contains(field_text, query_words[k])})

RECURSIVE sum_scores(_, _, _)
sum_scores(fields, query_lower, query_words) ==
    IF fields = <<>> THEN 0
    ELSE field_score(Head(fields)[1], Head(fields)[2], query_lower, query_words)
         + sum_scores(Tail(fields), query_lower, query_words)

\* MeetingIndexBuilder._calculate_relevance_score (in halves)
_calculate_relevance_score(meeting, query_lower, query_words) ==
    sum_scores(search_fields(meeting), query_lower, query_words)

\* Where a stable sort by score, highest first, puts the pair r
RECURSIVE insert_by_score(_, _)
insert_by_score(sorted, r) ==
    IF sorted = <<>> THEN <<r>>
    ELSE IF Head(sorted).score >= r.score
         THEN <<Head(sorted)>> \o insert_by_score(Tail(sorted), r)
         ELSE <<r>> \o sorted

\* Mutant of ranked: the pairs stay in the order of the index
ranked_as_indexed(results) == results

\* results.sort(key=lambda x: x[1], reverse=True)
RECURSIVE ranked(_)
ranked(results) ==
    IF results = <<>> THEN <<>>
    ELSE insert_by_score(ranked(SubSeq(results, 1, Len(results) - 1)),
                         results[Len(results)])

\* MeetingIndexBuilder.search_index on the meetings of the loaded index
\* (max_results >= 0): the entries it returns
search_index(meetings, query, max_results) ==
    LET query_lower == lower(query)
        query_words == split(query_lower, 1)
        scored  == [i \in DOMAIN meetings |->
                       [meeting |-> meetings[i],
                        score |-> _calculate_relevance_score(
                                      meetings[i], query_lower, query_words)]]
        Hit(r)  == r.score > 0
        results == ranked(SelectSeq(scored, Hit))
        n       == IF max_results < Len(results) THEN max_results ELSE Len(results)
    IN  [i \in 1..n |-> results[i].meeting]

\* "Meeting 2026-11-02 09:00", the name of "meeting_1"
NameOf1 == <<"M","e","e","t","i","n","g"," ","2","0","2","6","-","1","1","-","0","2"," ","0","9",":","0","0">>

\* "Meeting 2026-11-03 10:00", the name of "meeting_2"
NameOf2 == <<"M","e","e","t","i","n","g"," ","2","0","2","6","-","1","1","-","0","3"," ","1","0",":","0","0">>

\* "Meeting 2026-11-03 11:00", the name of "meeting_3"
NameOf3 == <<"M","e","e","t","i","n","g"," ","2","0","2","6","-","1","1","-","0","3"," ","1","1",":","0","0">>

\* The entries update_index_with_meeting can add in the search state machine
SearchPool ==
    { with_texts(from_meeting_data(MeetingId(1, ""), ProjectP, NotesFile(NotesA)),
                 NameOf1, <<"W","e"," ","g","o"," ","a","t"," ","1","0","\n">>),
      with_texts(from_meeting_data(MeetingId(2, ""), ProjectP, NotesFile(EmptyNotes)),
                 NameOf2, <<"s","e","e"," ","0","9"," ","p","l","a","n">>),
      with_texts(from_meeting_data(MeetingId(3, ""), ProjectP,
                                   NotesFile(Notes(<<<<"g","o"," ","p","l","a","n">>>>, <<>>, <<>>, <<>>))),
                 NameOf3, <<>>),
      with_texts(from_meeting_data(MeetingId(3, "_notes"), ProjectP, NoNotesFile),
                 NameOf3, <<"p","l","a","n"," ","t","h","e"," ","p","l","a","n">>) }

\* "2026-11-02 09", "Meeting", "go", "09", "plan  go", "zz" and ""
SearchQueries ==
    { <<"2","0","2","6","-","1","1","-","0","2"," ","0","9">>,
      <<"M","e","e","t","i","n","g">>,
      <<"g","o">>,
      <<"0","9">>,
      <<"p","l","a","n"," "," ","g","o">>,
      <<"z","z">>,
      <<>> }

\* max_results of the calls; 50 is the default
SearchLimits == {0, 1, 2, 50}

NoSearchCall == [op |-> "none"]

SearchIdle ==
    /\ s_meetings = <<>>
    /\ s_call = NoSearchCall
    /\ s_results = <<>>

---------------------------------------------------------------------------
(* services/history.py: the meeting history and its JSON file.  An         *)
(* optional field that is None (or ""; the code tests both the same way)   *)
(* is the empty string.                                                    *)

NoPath == <<>>

MeetingRecord(meeting_id, name, date, project_name, transcript_path, json_notes_path) ==
    [meeting_id |-> meeting_id, name |-> name, date |-> date,
     project_name |-> project_name, transcript_path |-> transcript_path,
     summary_path |-> NoPath, full_audio_path |-> <<"a",".","w","a","v">>,
     json_notes_path |-> json_notes_path]

\* Mutant of existing: the record of the id is never found
existing_none(records, meeting_id) == 0

\* next((r for r in self.records if r.meeting_id == rec.meeting_id), None):
\* the position of the first record of that id, 0 for None
existing(records, meeting_id) ==
    LET hits == {i \in 1..Len(records) : records[i].meeting_id = meeting_id}
    IN  IF hits = {} THEN 0 ELSE MinOf(hits)

\* s.replace("\\", "/")
replace_backslash(s) == [i \in 1..Len(s) |-> IF s[i] = "\\" THEN "/" ELSE s[i]]

OptionalKeys == {"summary_path", "full_audio_path", "json_notes_path"}

\* to_jsonable(r) of MeetingHistory._save: the canonical fields, the
\* optional ones only when set, the paths with forward slashes
to_jsonable(r) ==
    [k \in {"meeting_id", "name", "date", "project_name", "transcript_path"}
             \cup {o \in OptionalKeys : r[o] # NoPath} |->
        IF k \in OptionalKeys \cup {"transcript_path"} THEN replace_backslash(r[k]) ELSE r[k]]

NoHistoryFile == [exists |-> FALSE, payload |-> <<>>]

\* MeetingHistory._save(): the file as it is written
history_save(records) ==
    [exists |-> TRUE, payload |-> [i \in 1..Len(records) |-> to_jsonable(records[i])]]

\* MeetingHistory.add_or_update(rec): [records, file] afterwards
history_add_or_update(records, rec) ==
    LET at == existing(records, rec.meeting_id)
        updated ==
            IF at # 0
            THEN [records EXCEPT ![at] =
                     [@ EXCEPT !.name = rec.name, !.date = rec.date,
                               !.project_name = rec.project_name,
                               !.transcript_path = rec.transcript_path,
                               !.summary_path = rec.summary_path,
                               !.full_audio_path = rec.full_audio_path]]
            ELSE Append(records, rec)
    IN  [records |-> updated, file |-> history_save(updated)]

\* _save_json_notes_and_update_index on the history: the first record of
\* the meeting id gets the path of the notes file, then _save()
history_set_json_notes_path(records, meeting_id, path) ==
    LET at == existing(records, meeting_id)
        updated == IF at # 0 THEN [records EXCEPT ![at].json_notes_path = path]
                   ELSE records
    IN  [records |-> updated, file |-> history_save(updated)]

\* "2026-11-02 09:00" and "2026-11-02 10:00": strftime("%Y-%m-%d %H:%M")
DateTime1 == Date1 \o <<" ","0","9",":","0","0">>

DateTime2 == Date1 \o <<" ","1","0",":","0","0">>

\* The transcript path as str(Path) gives it on Windows and elsewhere
TranscriptPaths == {<<"t","\\","1",".","t","x","t">>, <<"t","/","1",".","t","x","t">>}

NotesPath == <<"n","\\","1",".","j","s","o","n">>

\* The records the calls are made with: a meeting, and the meeting saved
\* again an hour later under another name
HistoryInputs ==
    {MeetingRecord(id, nd[1], nd[2], ProjectP, path, NoPath) :
        id \in {Id1, Id2}, nd \in {<<NameSync, DateTime1>>, <<NamePlan, DateTime2>>},
        path \in TranscriptPaths}

\* The number of calls on the history
MaxHistoryCalls == 4

NoHistoryCall == [op |-> "none"]

\* MeetingHistory.__init__ without a history file: no records
HistoryIdle ==
    /\ history_records = <<>>
    /\ history_file = NoHistoryFile
    /\ h_prev = <<>>
    /\ h_call = NoHistoryCall
    /\ h_calls = 0

---------------------------------------------------------------------------
(* The HTTP backends: services/transcribe/openai_backend.py,               *)
(* services/suggest/openai_backend.py, services/suggest/claude_backend.py  *)
(* and SuggestionGenerator (services/suggest/__init__.py).  A key is       *)
(* modelled by whether it is set, the answer of requests.post by the       *)
(* exception it raised or by its status code and by what its body parses   *)
(* to.  One step is one requests.post with what the loop does next.        *)

NoError == "None"

Response(status_code, body) ==
    [raised |-> NoError, status_code |-> status_code, body |-> body]

\* requests.post raised a requests.exceptions.RequestException
RequestException == [raised |-> "RequestException", status_code |-> 0, body |-> "none"]

\* The status codes of the model: success, another 2xx, two client errors
\* (one of them Payload Too Large) and a server error
StatusCodes == {200, 204, 400, 413, 503}

\* The body of a 200 answer of a suggestion request: parsed to suggestions,
\* not JSON at all (resp.json() raises), or JSON of another shape
\* (KeyError, IndexError, json.JSONDecodeError of the content, empty content)
Bodies == {"ok", "not_json", "bad_shape"}

Responses ==
    {RequestException}
        \cup {Response(c, "ok") : c \in StatusCodes}
        \cup {Response(200, b) : b \in Bodies}

\* backoffs = [0.5, 1.0, 2.0], in tenths of a second
backoffs == <<5, 10, 20>>

\* enumerate([0.0] + backoffs, start=1): the number of iterations
attempts == Len(<<0>> \o backoffs)

\* One iteration of the loop of OpenAITranscriptionBackend.transcribe: what
\* follows the answer r of requests.post
transcribe_iteration(r, _enable_chunking) ==
    IF r.raised = "RequestException" THEN "continue"
    ELSE IF r.status_code = 200 THEN "return"
    ELSE IF r.status_code = 413
         THEN IF _enable_chunking THEN "_transcribe_chunked" ELSE "break"
    ELSE IF 400 <= r.status_code /\ r.status_code < 500 THEN "break"
    ELSE "continue"

\* One iteration of the loop of _post_whisper
_post_whisper_iteration(r) ==
    IF r.raised = "RequestException" THEN "continue"
    ELSE IF r.status_code = 200 THEN "return"
    ELSE IF 400 <= r.status_code /\ r.status_code < 500 THEN "break"
    ELSE "continue"

\* One iteration of the loop of OpenAISuggestionBackend.generate.  The
\* exception resp.json() raises on a body that is not JSON is a
\* RequestException in some releases of requests and a ValueError in others.
OpenAISuggestionBackend_iteration(r, json_error_is_request_exception) ==
    IF r.raised = "RequestException" THEN "continue"
    ELSE IF r.status_code # 200
         THEN IF 500 <= r.status_code /\ r.status_code < 600 THEN "continue" ELSE "break"
    ELSE IF r.body = "not_json"
         THEN IF json_error_is_request_exception THEN "continue" ELSE "break"
    ELSE IF r.body = "bad_shape" THEN "break"
    ELSE "return"

\* One iteration of the loop of ClaudeSuggestionBackend.generate
ClaudeSuggestionBackend_iteration(r, json_error_is_request_exception) ==
    IF r.raised = "RequestException" THEN "continue"
    ELSE IF r.status_code # 200
         THEN IF 500 <= r.status_code /\ r.status_code < 600 THEN "continue" ELSE "break"
    ELSE IF r.body = "not_json"
         THEN IF json_error_is_request_exception THEN "continue" ELSE "break"
    ELSE IF r.body = "bad_shape" THEN "break"
    ELSE "return"

\* fallback_backend = "openai" if primary_backend == "claude" else "claude"
fallback_backend(primary_backend) ==
    IF primary_backend = "claude" THEN "openai" ELSE "claude"

\* self._api_key of the suggestion backend get_backend(name) builds
suggest_api_key(name, cfg) ==
    IF name = "claude" THEN cfg.ANTHROPIC_API_KEY \/ cfg.OPENAI_API_KEY
    ELSE cfg.OPENAI_API_KEY

\* get_backend(name).generate(transcript_text) up to its first request: the
\* exception it raises, NoError when it enters its retry loop
backend_generate(name, cfg) ==
    IF name \notin {"claude", "openai"} THEN "ValueError"
    ELSE IF ~suggest_api_key(name, cfg) THEN "SuggestionUnavailable"
    ELSE NoError

\* The number of chunks _split_wav_into_chunks gives
MaxChunks == 2

\* The number of backend calls
MaxHttpCalls == 1

NoConfig ==
    [op |-> "none", OPENAI_API_KEY |-> FALSE, ANTHROPIC_API_KEY |-> FALSE,
     suggestion_backend |-> "claude", exists |-> FALSE, oversize |-> FALSE,
     _enable_chunking |-> FALSE, chunks |-> 0, blank |-> FALSE,
     json_error_is_request_exception |-> FALSE]

\* The environment and the audio file of a transcribe call
TranscribeConfigs ==
    {[NoConfig EXCEPT !.op = "transcribe", !.OPENAI_API_KEY = k, !.exists = e,
                      !.oversize = o, !._enable_chunking = c, !.chunks = n] :
        k \in BOOLEAN, e \in BOOLEAN, o \in BOOLEAN, c \in BOOLEAN, n \in 1..MaxChunks}

\* The environment and the transcript of a generate call
GenerateConfigs ==
    {[NoConfig EXCEPT !.op = "generate", !.OPENAI_API_KEY = k, !.ANTHROPIC_API_KEY = a,
                      !.suggestion_backend = b, !.blank = t,
                      !.json_error_is_request_exception = j] :
        k \in BOOLEAN, a \in BOOLEAN, b \in {"claude", "openai", "local"},
        t \in BOOLEAN, j \in BOOLEAN}

HttpIdle ==
    /\ http_pc = "idle"
    /\ http_config = NoConfig
    /\ http_attempt = 0
    /\ http_chunk = 0
    /\ http_requests = <<>>
    /\ http_raised = NoError
    /\ http_calls = 0

---------------------------------------------------------------------------
(* Two workflow runs at a time: the worker threads of two recordings, as   *)
(* they share the MainWindow, the MeetingHistory and the files.  A thread  *)
(* can be interrupted between any two reads or writes of a file.           *)

ProjectQ == <<"Q">>

Projects == {ProjectP, ProjectQ}

Runs == {1, 2}

\* f"meeting_{n}"
meeting_(n) == IF n = 1 THEN Id1 ELSE Id2

\* What a worker thread does from the transcript on: _save_transcript with
\* the write of the history file; the reads of _complete_save_workflow;
\* step 7 with the write of the history file and the index update; step 8;
\* step 9: ensure_journal_date_section, called by the workflow and again
\* by append_journal_entry, then the read and the write of the entry
Steps ==
    <<"_save_transcript", "_save", "_complete_save_workflow", "_save_json_notes",
      "_save", "update_index_with_meeting", "upsert_meeting_section",
      "exists", "read_text", "write_text",
      "exists", "read_text", "write_text",
      "read_lines", "write_lines">>

NotStarted == 0

Finished == Len(Steps) + 1

\* The run r is at a step named step
At(r, step) == t_pc[r] \in DOMAIN Steps /\ Steps[t_pc[r]] = step

NoLocal ==
    [project |-> <<>>, payload |-> NoHistoryFile, content |-> <<>>,
     record_id |-> 0, wiki_id |-> 0, index_id |-> 0]

\* Lines 52-75 of append_journal_entry on the lines it has read: the text
\* it writes
write_lines(read, date_str, now_hhmm, project, meeting, recap_one_line, details_bullets) ==
    LET header_line == date_header(date_str)
        found       == index_of(read, header_line, 1)
        lines       == IF found = 0 THEN Append(read, header_line) ELSE read
        idx         == IF found = 0 THEN Len(lines) ELSE found
        insertion_idx == insertion_point(lines, idx)
        entry       == entry_line(now_hhmm, project, meeting, recap_one_line)
        block       == <<entry>> \o detail_lines(details_bullets) \o << <<"\n">> >>
    IN  join(SubSeq(lines, 1, insertion_idx - 1) \o block
                 \o SubSeq(lines, insertion_idx, Len(lines)))

\* No second run: the first recording was transcribed, its project is P
TwoIdle ==
    /\ t_pc = [r \in Runs |-> IF r = 1 THEN 1 ELSE NotStarted]
    /\ t_local = [r \in Runs |-> NoLocal]
    /\ t_selected = ProjectP
    /\ t_current = 1
    /\ t_wiki = [p \in Projects |-> DocFresh]
    /\ t_index = [p \in Projects |-> NoIndex]

---------------------------------------------------------------------------
(* services/weekly.py: the sections of the journal and their filter.  An   *)
(* OrderedDict is the sequence of its items [date, lines] in the order of  *)
(* insertion.                                                              *)

DateDigits == {"0","1","2","3","4","5","6","7","8","9"}

\* \d{4}-\d{2}-\d{2}
IsIsoDate(d) ==
    /\ Len(d) = 10
    /\ \A i \in 1..10 : IF i \in {5, 8} THEN d[i] = "-" ELSE d[i] \in DateDigits

\* DATE_HEADER_RE.match(s), s being a stripped line: group 1, or <<>> when
\* the line does not match
DATE_HEADER_RE(s) ==
    IF ~startswith(s, <<"#","#">>) THEN <<>>
    ELSE LET b == first_not_in(s, 3, Whitespace)
             d == SubSeq(s, b, Len(s))
         IN  IF b > 3 /\ IsIsoDate(d) THEN d ELSE <<>>

\* s.find(sub) from position i on, 1-based; 0 when sub is not in s
RECURSIVE find_from(_, _, _)
find_from(s, sub, i) ==
    IF i + Len(sub) - 1 > Len(s) THEN 0
    ELSE IF SubSeq(s, i, i + Len(sub) - 1) = sub THEN i
         ELSE find_from(s, sub, i + 1)

\* date in sections
HasDate(sections, date) == \E k \in DOMAIN sections : sections[k].date = date

\* sections[date].append(ln)
AppendLine(sections, date, ln) ==
    [k \in DOMAIN sections |->
        IF sections[k].date = date
        THEN [sections[k] EXCEPT !.lines = Append(@, ln)]
        ELSE sections[k]]

\* The loop of _parse_journal_sections over the lines from i on
RECURSIVE parse_lines(_, _, _, _)
parse_lines(lines, i, sections, current_date) ==
    IF i > Len(lines) THEN sections
    ELSE LET m == DATE_HEADER_RE(strip(lines[i]))
         IN  IF m # <<>>
             THEN parse_lines(lines, i + 1,
                      IF HasDate(sections, m) THEN sections
                      ELSE Append(sections, [date |-> m, lines |-> <<>>]), m)
             ELSE IF current_date # <<>>
                  THEN parse_lines(lines, i + 1,
                           AppendLine(sections, current_date, lines[i]), current_date)
                  ELSE parse_lines(lines, i + 1, sections, current_date)

\* _parse_journal_sections(journal_path)
_parse_journal_sections(file) ==
    parse_lines(splitlines(IF file.exists THEN file.content ELSE <<>>), 1, <<>>, <<>>)

\* remaining.split(" — ")[0].strip() of an entry line, remaining being
\* line.split("] ", 1)[1]; <<"?">> when the line has no "] " or remaining
\* has no " — ", the cases in which no line is kept
line_project(line) ==
    LET k == find_from(line, <<"]"," ">>, 1)
        remaining == SubSeq(line, k + 2, Len(line))
        e == find_from(remaining, <<" ", EmDash, " ">>, 1)
    IN  IF k = 0 \/ e = 0 THEN <<"?">>
        ELSE strip(SubSeq(remaining, 1, e - 1))

\* The loop over the lines of one section from i on, filtered_lines being
\* the lines kept so far
RECURSIVE filter_lines(_, _, _, _)
filter_lines(lines, i, project_name, filtered_lines) ==
    IF i > Len(lines) THEN filtered_lines
    ELSE LET line == lines[i]
             keep ==
                IF startswith(strip(line), <<"-"," ","[">>)
                       /\ contains(line, <<" ", EmDash, " ">>)
                THEN line_project(line) # <<"?">>
                         /\ lower(line_project(line)) = lower(project_name)
                ELSE IF startswith(strip(line), <<" "," ","-"," ">>)
                            /\ filtered_lines # <<>>
                     THEN TRUE
                     ELSE strip(line) = <<>>
         IN  filter_lines(lines, i + 1, project_name,
                          IF keep THEN Append(filtered_lines, line) ELSE filtered_lines)

\* _filter_journal_sections_by_project(sections, project_name)
RECURSIVE _filter_journal_sections_by_project(_, _)
_filter_journal_sections_by_project(sections, project_name) ==
    IF sections = <<>> THEN <<>>
    ELSE LET filtered_lines == filter_lines(Head(sections).lines, 1, project_name, <<>>)
             rest == _filter_journal_sections_by_project(Tail(sections), project_name)
         IN  IF filtered_lines # <<>>
             THEN <<[date |-> Head(sections).date, lines |-> filtered_lines]>> \o rest
             ELSE rest

\* The number of entries in the journal the weekly summary reads
MaxWeeklyEntries == 3

WeeklyProjects == {ProjectP, ProjectQ}

\* No details, and two detail bullets
WeeklyDetails == {<<>>, <<ItemAb, ItemCd>>}

NoWeeklyCall == [op |-> "none"]

WeeklyIdle ==
    /\ wk_journal = NoJournal
    /\ wk_call = NoWeeklyCall
    /\ wk_result = <<>>
    /\ wk_entries = 0

---------------------------------------------------------------------------
(* services/recorder.py: PyAudioRecorder as the UI thread and its capture  *)
(* threads use it.  A capture thread stands before the test of its while   *)
(* loop, in the read of the stream and the write of the frames, in         *)
(* _cleanup, or it has finished.                                           *)

\* The number of start() calls
MaxStarts == 2

CaptureThreads == 1..MaxStarts

NoRecorderCall == [op |-> "none"]

RecorderIdle ==
    /\ rec_running = FALSE
    /\ rec_output_path = None
    /\ rec_thread = None
    /\ rec_stream = None
    /\ rec_loops = [n \in CaptureThreads |-> "unstarted"]
    /\ rec_ui = "idle"
    /\ rec_call = NoRecorderCall
    /\ rec_starts = 0

\* threading.Thread.is_alive()
is_alive(n) == n # None /\ rec_loops[n] \in {"while", "read", "cleanup"}

\* PyAudioRecorder.is_recording
is_recording == rec_running

---------------------------------------------------------------------------
(* The index of one project as two threads use it: the worker thread in    *)
(* _save_json_notes_and_update_index and the UI thread in                  *)
(* _load_meetings_list.  A thread can be interrupted between its read and  *)
(* its write of meetings_index.json.                                       *)

\* How many times the user opens the Meetings tab or resets the search
MaxBuilds == 2

Threads == {"worker", "ui"}

\* Neither thread has loaded anything
NoBuildLocal == [index |-> NoIndex, notes_dir |-> <<>>]

BuildIdle ==
    /\ b_pc = [t \in Threads |-> "idle"]
    /\ b_local = [t \in Threads |-> NoBuildLocal]
    /\ b_builds = 0

RestIdle ==
    HistoryIdle /\ HttpIdle /\ TwoIdle /\ BuildIdle /\ RecorderIdle /\ WeeklyIdle

---------------------------------------------------------------------------
(* The wiki engine as a state machine: upsert calls on one wiki file.      *)

InitWiki ==
    /\ wiki \in WikiDocs
    /\ w_prev = <<>>
    /\ w_args = NoCall
    /\ w_changed = FALSE
    /\ w_repeat = FALSE
    /\ w_calls = 0
    /\ MainWindowInit
    /\ JournalIdle
    /\ IndexIdle
    /\ SearchIdle
    /\ RestIdle

\* upsert_meeting_section(wiki_path, date, name, meeting_id, suggestions)
Upsert(date, name, meeting_id, suggestions) ==
    LET r == upsert_meeting_section(wiki, date, name, meeting_id, suggestions)
        args == [date |-> date, name |-> name, meeting_id |-> meeting_id,
                 suggestions |-> suggestions]
    IN  /\ w_calls < MaxCalls
        /\ wiki' = r.content
        /\ w_prev' = wiki
        /\ w_args' = args
        /\ w_changed' = r.modified
        /\ w_repeat' = (w_args = args)
        /\ w_calls' = w_calls + 1
        /\ UNCHANGED <<workflowVars, journalVars, indexVars, searchVars, restVars>>

NextWiki ==
    \E t \in WikiTargets, s \in WikiSuggestions : Upsert(Date1, t[1], t[2], s)

SpecWiki == InitWiki /\ [][NextWiki]_vars

---------------------------------------------------------------------------
(* The workflow as a state machine.                                        *)

WikiIdle ==
    /\ wiki = <<>>
    /\ w_prev = <<>>
    /\ w_args = NoCall
    /\ w_changed = FALSE
    /\ w_repeat = FALSE
    /\ w_calls = 0

Init == MainWindowInit /\ WikiIdle /\ JournalIdle /\ IndexIdle /\ SearchIdle /\ RestIdle

Next ==
    \/ _on_record_toggle_clicked
    \/ _on_weekly_clicked
    \/ _on_weekly_closed
    \/ _on_wiki_save
    \/ \E index \in 0..2 : _on_tab_changed(index)
    \/ _start_complete_workflow
    \/ ui_set_status_slot
    \/ _status_reset_timeout
    \/ _run_loop
    \/ \E r \in DOMAIN complete_workflow : transcribe(r)
    \/ \E r \in DOMAIN complete_workflow : _save_transcript(r)
    \/ \E r \in DOMAIN complete_workflow : generate(r)
    \/ \E r \in DOMAIN complete_workflow : save_notes(r)
    \/ \E r \in DOMAIN complete_workflow : upsert_wiki(r)
    \/ \E r \in DOMAIN complete_workflow : journal(r)

Spec == Init /\ [][Next]_vars

\* The Qt event loop of the UI thread keeps processing events: a queued
\* emission of ui_set_status is delivered, a running single-shot timer fires
SpecLive == Spec /\ WF_vars(ui_set_status_slot) /\ WF_vars(_status_reset_timeout)

\* The statement the worker thread of run r executes next
complete_workflow_step(r) ==
    \/ transcribe(r)
    \/ _save_transcript(r)
    \/ generate(r)
    \/ save_notes(r)
    \/ upsert_wiki(r)
    \/ journal(r)

\* The worker threads: threading.Thread(target=complete_workflow).start()
complete_workflow_thread == \E r \in DOMAIN complete_workflow : complete_workflow_step(r)

\* A started thread keeps being scheduled, and every backend call and file
\* operation it makes returns or raises
SpecWorker == Spec /\ WF_vars(complete_workflow_thread)

---------------------------------------------------------------------------
(* The journal as a state machine: calls on one journal file.              *)

InitJournal == JournalIdle /\ WikiIdle /\ IndexIdle /\ SearchIdle /\ RestIdle /\ MainWindowInit

\* The positions of the entries after count lines were inserted at line at
shifted(entries, at, count) ==
    [n \in DOMAIN entries |->
        IF entries[n].at >= at
        THEN [entries[n] EXCEPT !.at = entries[n].at + count]
        ELSE entries[n]]

\* ensure_journal_date_section(project_wikis_dir, date_str)
Ensure(date_str) ==
    LET call == [op |-> "ensure", date_str |-> date_str]
    IN  /\ j_calls < MaxJournalCalls
        /\ journal_file' = [exists |-> TRUE,
                            content |-> ensure_journal_date_section(journal_file, date_str)]
        /\ j_prev' = journal_file
        /\ j_call' = call
        /\ j_repeat' = (j_call = call)
        /\ j_dates' = j_dates \cup {date_str}
        /\ j_calls' = j_calls + 1
        /\ UNCHANGED <<j_entries, wikiVars, workflowVars, indexVars, searchVars, restVars>>

\* append_journal_entry(project_wikis_dir, date_str, project, meeting,
\* recap_one_line, details_bullets) at the time now_hhmm
AppendEntry(date_str, now_hhmm, recap_one_line, details_bullets) ==
    LET call == [op |-> "append", date_str |-> date_str,
                 recap_one_line |-> recap_one_line,
                 details_bullets |-> details_bullets]
        r == append_journal_entry(journal_file, date_str, now_hhmm, ProjectP,
                                  NameSync, recap_one_line, details_bullets)
    IN  /\ j_calls < MaxJournalCalls
        /\ journal_file' = [exists |-> TRUE, content |-> r.content]
        /\ j_prev' = journal_file
        /\ j_call' = call @@ [now_hhmm |-> now_hhmm]
        /\ j_repeat' = (j_call.op = "append"
                           /\ [f \in DOMAIN call |-> j_call[f]] = call)
        /\ j_dates' = j_dates \cup {date_str}
        /\ j_entries' = Append(shifted(j_entries, r.at, r.count),
                               [date_str |-> date_str, at |-> r.at,
                                now_hhmm |-> now_hhmm])
        /\ j_calls' = j_calls + 1
        /\ UNCHANGED <<wikiVars, workflowVars, indexVars, searchVars, restVars>>

NextJournal ==
    \/ \E d \in JournalDates : Ensure(d)
    \/ \E d \in JournalDates, t \in JournalTimes, recap \in JournalRecaps,
          details \in JournalDetails : AppendEntry(d, t, recap, details)

SpecJournal == InitJournal /\ [][NextJournal]_vars

---------------------------------------------------------------------------
(* The index as a state machine: notes files written, index calls made.    *)

InitIndex == IndexIdle /\ WikiIdle /\ JournalIdle /\ SearchIdle /\ RestIdle /\ MainWindowInit

\* json.dump(json_notes, f) to meeting_<n>_notes.json
WriteNotes(n, data) ==
    /\ idx_calls < MaxIndexCalls
    /\ json_notes_dir[n] # NotesFile(data)
    /\ json_notes_dir' = [json_notes_dir EXCEPT ![n] = NotesFile(data)]
    /\ idx_prev' = index_file
    /\ idx_call' = [op |-> "write", n |-> n]
    /\ idx_calls' = idx_calls + 1
    /\ UNCHANGED <<index_file, clock, wikiVars, journalVars, workflowVars, searchVars, restVars>>

\* update_index_with_meeting(project, "meeting_<n>", path of meeting_<n>_notes.json)
UpdateIndex(n) ==
    /\ idx_calls < MaxIndexCalls
    /\ index_file' = builder_update_index_with_meeting(
                         index_file, ProjectP, MeetingId(n, ""), json_notes_dir[n],
                         clock, clock + 1)
    /\ idx_prev' = index_file
    /\ idx_call' = [op |-> "update", n |-> n]
    /\ clock' = clock + 2
    /\ idx_calls' = idx_calls + 1
    /\ UNCHANGED <<json_notes_dir, wikiVars, journalVars, workflowVars, searchVars, restVars>>

\* build_project_index(project, force_rebuild)
BuildIndex(force_rebuild) ==
    /\ idx_calls < MaxIndexCalls
    /\ index_file' = builder_build_project_index(
                         index_file, json_notes_dir, ProjectP, force_rebuild, clock)
    /\ idx_prev' = index_file
    /\ idx_call' = [op |-> "build", force_rebuild |-> force_rebuild]
    /\ clock' = clock + 1
    /\ idx_calls' = idx_calls + 1
    /\ UNCHANGED <<json_notes_dir, wikiVars, journalVars, workflowVars, searchVars, restVars>>

NextIndex ==
    \/ \E n \in IndexMeetings, data \in NotesContents : WriteNotes(n, data)
    \/ \E n \in IndexMeetings : UpdateIndex(n)
    \/ \E force_rebuild \in BOOLEAN : BuildIndex(force_rebuild)

SpecIndex == InitIndex /\ [][NextIndex]_vars

---------------------------------------------------------------------------
(* The search as a state machine: meetings indexed, searches made.         *)

InitSearch == SearchIdle /\ IndexIdle /\ WikiIdle /\ JournalIdle /\ RestIdle /\ MainWindowInit

\* update_index_with_meeting for a meeting of the pool
IndexMeeting(entry) ==
    /\ s_meetings' = sort_newest_first(
                         Append(replaced(s_meetings, entry.meeting_id), entry))
    /\ s_call' = [op |-> "index"]
    /\ s_results' = <<>>
    /\ UNCHANGED <<wikiVars, journalVars, indexVars, workflowVars, restVars>>

\* search_index(project, query, max_results)
Search(query, max_results) ==
    /\ s_results' = search_index(s_meetings, query, max_results)
    /\ s_call' = [op |-> "search", query |-> query, max_results |-> max_results]
    /\ UNCHANGED <<s_meetings, wikiVars, journalVars, indexVars, workflowVars, restVars>>

NextSearch ==
    \/ \E entry \in SearchPool : IndexMeeting(entry)
    \/ \E query \in SearchQueries, max_results \in SearchLimits :
          Search(query, max_results)

SpecSearch == InitSearch /\ [][NextSearch]_vars

---------------------------------------------------------------------------
(* The persist stages as a state machine: _complete_save_workflow run     *)
(* again and again for one meeting ("meeting_1", Id1 in the wiki header).  *)

\* The suggestions a backend can return: the lists hold stripped items
\* that are not blank
PersistSuggestions == {SgEmpty, SgBasic, SgTwoLines, SgRisk}

\* The number of runs of the persist stages
MaxPersistRuns == 3

InitPersist ==
    /\ wiki \in {DocFresh, DocProject}
    /\ w_prev = <<>>
    /\ w_args = NoCall
    /\ w_changed = FALSE
    /\ w_repeat = FALSE
    /\ w_calls = 0
    /\ JournalIdle /\ IndexIdle /\ SearchIdle /\ RestIdle /\ MainWindowInit

\* f"{label}{item}" for every item
labelled(label, items) == [i \in DOMAIN items |-> label \o items[i]]

\* The recap lines that are not blank, stripped
RECURSIVE stripped_lines(_)
stripped_lines(lines) ==
    IF lines = <<>> THEN <<>>
    ELSE (IF strip(Head(lines)) # <<>> THEN <<strip(Head(lines))>> ELSE <<>>)
             \o stripped_lines(Tail(lines))

\* detail_bullets of step 9
detail_bullets(suggestions) ==
    labelled(<<"T","o","p","i","c",":"," ">>, stripped_lines(splitlines(suggestions.recap)))
        \o labelled(<<"T","o"," ","D","o",":"," ">>, suggestions.actions)
        \o labelled(<<"A","c","c","o","m","p","l","i","s","h","e","d",":"," ">>, suggestions.decisions)

\* MainWindow._complete_save_workflow with every step succeeding: the notes
\* file and the index entry (step 7), the wiki section (step 8), the
\* journal entry (step 9)
Persist(suggestions) ==
    LET json_file == NotesFile(Notes(suggestions.decisions, suggestions.actions,
                                     suggestions.risks, suggestions.open_questions))
        args  == [date |-> Date1, name |-> NameSync, meeting_id |-> Id1,
                  suggestions |-> suggestions]
        u     == upsert_meeting_section(wiki, Date1, NameSync, Id1, suggestions)
        recap == IF suggestions.recap # <<>> THEN suggestions.recap ELSE NameSync
        ensured == [exists |-> TRUE,
                    content |-> ensure_journal_date_section(journal_file, Date1)]
        call  == [op |-> "append", date_str |-> Date1, recap_one_line |-> recap,
                  details_bullets |-> detail_bullets(suggestions)]
        j     == append_journal_entry(ensured, Date1, Time1, ProjectP, NameSync,
                                      recap, detail_bullets(suggestions))
    IN  /\ w_calls < MaxPersistRuns
        /\ json_notes_dir' = [json_notes_dir EXCEPT ![1] = json_file]
        /\ index_file' = builder_update_index_with_meeting(
                             index_file, ProjectP, MeetingId(1, ""), json_file,
                             clock, clock + 1)
        /\ idx_prev' = index_file
        /\ idx_call' = [op |-> "update", n |-> 1]
        /\ clock' = clock + 2
        /\ idx_calls' = idx_calls + 1
        /\ wiki' = u.content
        /\ w_prev' = wiki
        /\ w_args' = args
        /\ w_changed' = u.modified
        /\ w_repeat' = (w_args = args)
        /\ w_calls' = w_calls + 1
        /\ journal_file' = [exists |-> TRUE, content |-> j.content]
        /\ j_prev' = journal_file
        /\ j_call' = call @@ [now_hhmm |-> Time1]
        /\ j_repeat' = (j_call.op = "append"
                           /\ [f \in DOMAIN call |-> j_call[f]] = call)
        /\ j_dates' = j_dates \cup {Date1}
        /\ j_entries' = Append(shifted(j_entries, j.at, j.count),
                               [date_str |-> Date1, at |-> j.at, now_hhmm |-> Time1])
        /\ j_calls' = j_calls + 1
        /\ UNCHANGED <<workflowVars, searchVars, restVars>>

NextPersist == \E suggestions \in PersistSuggestions : Persist(suggestions)

SpecPersist == InitPersist /\ [][NextPersist]_vars

---------------------------------------------------------------------------
(* The history as a state machine: calls on one MeetingHistory that        *)
(* started without a file.                                                 *)

InitHistory ==
    HistoryIdle /\ HttpIdle /\ TwoIdle /\ BuildIdle /\ RecorderIdle /\ WeeklyIdle /\ WikiIdle /\ JournalIdle /\ IndexIdle /\ SearchIdle /\ MainWindowInit

\* self._history.add_or_update(record)
AddOrUpdate(rec) ==
    LET r == history_add_or_update(history_records, rec)
    IN  /\ h_calls < MaxHistoryCalls
        /\ history_records' = r.records
        /\ history_file' = r.file
        /\ h_prev' = history_records
        /\ h_call' = [op |-> "add_or_update", rec |-> rec]
        /\ h_calls' = h_calls + 1
        /\ UNCHANGED <<wikiVars, journalVars, indexVars, searchVars, workflowVars, httpVars, twoVars,
                       buildVars, recorderVars, weeklyVars>>

\* record.json_notes_path = str(old_json_path); self._history._save()
SetJsonNotesPath(meeting_id) ==
    LET r == history_set_json_notes_path(history_records, meeting_id, NotesPath)
    IN  /\ h_calls < MaxHistoryCalls
        /\ history_records' = r.records
        /\ history_file' = r.file
        /\ h_prev' = history_records
        /\ h_call' = [op |-> "set_json_notes_path", meeting_id |-> meeting_id]
        /\ h_calls' = h_calls + 1
        /\ UNCHANGED <<wikiVars, journalVars, indexVars, searchVars, workflowVars, httpVars, twoVars,
                       buildVars, recorderVars, weeklyVars>>

NextHistory ==
    \/ \E rec \in HistoryInputs : AddOrUpdate(rec)
    \/ \E meeting_id \in {Id1, Id2} : SetJsonNotesPath(meeting_id)

SpecHistory == InitHistory /\ [][NextHistory]_vars

---------------------------------------------------------------------------
(* The backends as a state machine: one transcribe or generate call at a   *)
(* time, one requests.post per step, every answer of the server possible.  *)

InitHttp ==
    HttpIdle /\ HistoryIdle /\ TwoIdle /\ BuildIdle /\ RecorderIdle /\ WeeklyIdle /\ WikiIdle /\ JournalIdle /\ IndexIdle /\ SearchIdle
        /\ MainWindowInit

notHttpVars ==
    <<wikiVars, journalVars, indexVars, searchVars, historyVars, workflowVars, twoVars,
      buildVars, recorderVars, weeklyVars>>

\* The retry loop (or the end of the call) the call goes to next
HttpGoto(pc, attempt, chunk, raised) ==
    /\ http_pc' = pc
    /\ http_attempt' = attempt
    /\ http_chunk' = chunk
    /\ http_raised' = raised

\* The call returns, or raises what is given
HttpDone(raised) == HttpGoto("done", 0, 0, raised)

\* requests.post(...) in the loop named loop got the answer r; the first
\* request of a loop starts the list anew
HttpPost(loop, r) ==
    LET request == [loop |-> loop, chunk |-> http_chunk, attempt |-> http_attempt,
                    response |-> r]
    IN  http_requests' = IF http_attempt = 1 THEN <<request>>
                         ELSE Append(http_requests, request)

\* self._transcribe_chunked(audio_file, headers) up to its first request
HttpChunked(cfg) ==
    IF cfg.chunks = 0 THEN HttpDone(NoError)
    ELSE HttpGoto("_post_whisper", 1, 1, NoError)

\* OpenAITranscriptionBackend.transcribe(audio_path) up to its first request
OpenAITranscriptionBackend_transcribe(cfg) ==
    /\ http_pc \in {"idle", "done"}
    /\ http_calls < MaxHttpCalls
    /\ http_calls' = http_calls + 1
    /\ http_config' = cfg
    /\ http_requests' = <<>>
    /\ IF ~cfg.OPENAI_API_KEY THEN HttpDone("TranscriptionUnavailable")
       ELSE IF ~cfg.exists THEN HttpDone("FileNotFoundError")
       ELSE IF cfg._enable_chunking /\ cfg.oversize THEN HttpChunked(cfg)
       ELSE HttpGoto("transcribe", 1, 0, NoError)
    /\ UNCHANGED notHttpVars

\* One iteration of the loop of transcribe; after the loop, or after a
\* break, raise Exception(friendly)
transcribe_post(r) ==
    LET then == transcribe_iteration(r, http_config._enable_chunking)
    IN  /\ http_pc = "transcribe"
        /\ HttpPost("transcribe", r)
        /\ CASE then = "return" -> HttpDone(NoError)
             [] then = "_transcribe_chunked" -> HttpChunked(http_config)
             [] then = "continue" /\ http_attempt < attempts ->
                    HttpGoto("transcribe", http_attempt + 1, 0, NoError)
             [] OTHER -> HttpDone("Exception")
        /\ UNCHANGED <<http_config, http_calls, notHttpVars>>

\* One iteration of the loop of _post_whisper for the chunk http_chunk; its
\* Exception leaves _transcribe_chunked and transcribe, its text is followed
\* by the next chunk
_post_whisper_post(r) ==
    LET then == _post_whisper_iteration(r)
    IN  /\ http_pc = "_post_whisper"
        /\ HttpPost("_post_whisper", r)
        /\ CASE then = "return" /\ http_chunk < http_config.chunks ->
                    HttpGoto("_post_whisper", 1, http_chunk + 1, NoError)
             [] then = "return" /\ http_chunk >= http_config.chunks -> HttpDone(NoError)
             [] then = "continue" /\ http_attempt < attempts ->
                    HttpGoto("_post_whisper", http_attempt + 1, http_chunk, NoError)
             [] OTHER -> HttpDone("Exception")
        /\ UNCHANGED <<http_config, http_calls, notHttpVars>>

\* SuggestionGenerator.generate(transcript_text) up to the first request of
\* the primary backend, or to the exception the primary backend raised
SuggestionGenerator_generate(cfg) ==
    LET raised == backend_generate(cfg.suggestion_backend, cfg)
    IN  /\ http_pc \in {"idle", "done"}
        /\ http_calls < MaxHttpCalls
        /\ http_calls' = http_calls + 1
        /\ http_config' = cfg
        /\ http_requests' = <<>>
        /\ IF cfg.blank THEN HttpDone(NoError)
           ELSE IF raised # NoError THEN HttpGoto("primary_raised", 0, 0, raised)
           ELSE HttpGoto("primary", 1, 0, NoError)
        /\ UNCHANGED notHttpVars

\* The backend the generator is calling
http_backend ==
    IF http_pc = "primary" THEN http_config.suggestion_backend
    ELSE fallback_backend(http_config.suggestion_backend)

\* One iteration of the loop of the suggestion backend the generator is
\* calling.  The Exception of the primary backend is caught by the
\* generator, the Exception of the fallback backend becomes the generator's.
generate_post(r) ==
    LET j == http_config.json_error_is_request_exception
        then == IF http_backend = "claude" THEN ClaudeSuggestionBackend_iteration(r, j)
                ELSE OpenAISuggestionBackend_iteration(r, j)
    IN  /\ http_pc \in {"primary", "fallback"}
        /\ HttpPost(http_backend, r)
        /\ CASE then = "return" -> HttpDone(NoError)
             [] then = "continue" /\ http_attempt < attempts ->
                    HttpGoto(http_pc, http_attempt + 1, 0, NoError)
             [] OTHER ->
                    IF http_pc = "primary" THEN HttpGoto("primary_raised", 0, 0, "Exception")
                    ELSE HttpDone("Exception")
        /\ UNCHANGED <<http_config, http_calls, notHttpVars>>

\* The except clauses of the generator for the primary backend, then the
\* fallback backend up to its first request
generate_fallback ==
    LET raised == backend_generate(fallback_backend(http_config.suggestion_backend), http_config)
    IN  /\ http_pc = "primary_raised"
        /\ IF raised = "SuggestionUnavailable" THEN HttpDone("SuggestionUnavailable")
           ELSE HttpGoto("fallback", 1, 0, NoError)
        /\ UNCHANGED <<http_config, http_requests, http_calls, notHttpVars>>

NextHttp ==
    \/ \E cfg \in TranscribeConfigs : OpenAITranscriptionBackend_transcribe(cfg)
    \/ \E r \in Responses : transcribe_post(r)
    \/ \E r \in Responses : _post_whisper_post(r)
    \/ \E cfg \in GenerateConfigs : SuggestionGenerator_generate(cfg)
    \/ \E r \in Responses : generate_post(r)
    \/ generate_fallback

SpecHttp == InitHttp /\ [][NextHttp]_vars

---------------------------------------------------------------------------
(* Two runs as a state machine: the first run has its transcript, the      *)
(* user may select the other project and make a second recording, whose    *)
(* run starts when it is stopped.  Transcription and suggestions succeed.  *)

InitTwoRuns ==
    TwoIdle /\ HistoryIdle /\ HttpIdle /\ BuildIdle /\ RecorderIdle /\ WeeklyIdle /\ WikiIdle /\ JournalIdle /\ IndexIdle
        /\ SearchIdle /\ MainWindowInit

notTwoVars ==
    <<wikiVars, indexVars, searchVars, httpVars, workflowVars, buildVars, recorderVars, weeklyVars>>

journalLog == <<j_prev, j_call, j_repeat, j_dates, j_entries, j_calls>>

historyLog == <<h_prev, h_call, h_calls>>

\* The run r goes on to its next step
Step(r) == t_pc' = [t_pc EXCEPT ![r] = @ + 1]

\* The user selects the other project in project_combo
select_project ==
    /\ t_selected = ProjectP
    /\ t_selected' = ProjectQ
    /\ UNCHANGED <<t_pc, t_local, t_current, t_wiki, t_index>>
    /\ UNCHANGED <<journal_file, journalLog, historyVars, notTwoVars>>

\* _start_recording for the second recording: a new _current_meeting_id
start_recording ==
    /\ t_current = 1
    /\ t_current' = 2
    /\ UNCHANGED <<t_pc, t_local, t_selected, t_wiki, t_index>>
    /\ UNCHANGED <<journal_file, journalLog, historyVars, notTwoVars>>

\* _stop_recording_and_process for the second recording; its worker thread
\* starts and gets its transcript
stop_recording ==
    /\ t_current = 2
    /\ t_pc[2] = NotStarted
    /\ Step(2)
    /\ UNCHANGED <<t_local, t_selected, t_current, t_wiki, t_index>>
    /\ UNCHANGED <<journal_file, journalLog, historyVars, notTwoVars>>

\* _save_transcript up to the write of MeetingHistory._save: the record is
\* added to the records in memory and the payload is built
two_save_transcript(r) ==
    LET rec == MeetingRecord(meeting_(t_current), NameSync, DateTime1, t_selected,
                             <<"t","/">> \o meeting_(t_current), NoPath)
        res == history_add_or_update(history_records, rec)
    IN  /\ At(r, "_save_transcript")
        /\ history_records' = res.records
        /\ t_local' = [t_local EXCEPT ![r].payload = res.file, ![r].record_id = t_current]
        /\ Step(r)
        /\ UNCHANGED <<t_selected, t_current, t_wiki, t_index>>
        /\ UNCHANGED <<history_file, historyLog, journal_file, journalLog, notTwoVars>>

\* self.history_path.write_text(json.dumps(payload, indent=2))
two_save(r) ==
    /\ At(r, "_save")
    /\ history_file' = t_local[r].payload
    /\ Step(r)
    /\ UNCHANGED <<t_local, t_selected, t_current, t_wiki, t_index>>
    /\ UNCHANGED <<history_records, historyLog, journal_file, journalLog, notTwoVars>>

\* project = self._current_project_name() of _complete_save_workflow
two_complete_save_workflow(r) ==
    /\ At(r, "_complete_save_workflow")
    /\ t_local' = [t_local EXCEPT ![r].project = t_selected]
    /\ Step(r)
    /\ UNCHANGED <<t_selected, t_current, t_wiki, t_index>>
    /\ UNCHANGED <<journal_file, journalLog, historyVars, notTwoVars>>

\* _save_json_notes_and_update_index up to the write of _save: the record
\* of the current meeting id gets the path of the notes file
two_save_json_notes(r) ==
    LET res == history_set_json_notes_path(history_records, meeting_(t_current), NotesPath)
    IN  /\ At(r, "_save_json_notes")
        /\ history_records' = res.records
        /\ t_local' = [t_local EXCEPT ![r].payload = res.file]
        /\ Step(r)
        /\ UNCHANGED <<t_selected, t_current, t_wiki, t_index>>
        /\ UNCHANGED <<history_file, historyLog, journal_file, journalLog, notTwoVars>>

\* meeting_index_builder.update_index_with_meeting(project, meeting id, ...)
two_update_index(r) ==
    LET project == t_local[r].project
    IN  /\ At(r, "update_index_with_meeting")
        /\ t_index' = [t_index EXCEPT ![project] =
               builder_update_index_with_meeting(@, project, MeetingId(t_current, ""),
                                                 NotesFile(NotesA), 1, 2)]
        /\ t_local' = [t_local EXCEPT ![r].index_id = t_current]
        /\ Step(r)
        /\ UNCHANGED <<t_selected, t_current, t_wiki>>
        /\ UNCHANGED <<journal_file, journalLog, historyVars, notTwoVars>>

\* Step 8: upsert_meeting_section on the wiki of the project
two_upsert(r) ==
    LET project == t_local[r].project
    IN  /\ At(r, "upsert_meeting_section")
        /\ t_wiki' = [t_wiki EXCEPT ![project] =
               upsert_meeting_section(@, Date1, NameSync, meeting_(t_current), SgBasic).content]
        /\ t_local' = [t_local EXCEPT ![r].wiki_id = t_current]
        /\ Step(r)
        /\ UNCHANGED <<t_selected, t_current, t_index>>
        /\ UNCHANGED <<journal_file, journalLog, historyVars, notTwoVars>>

\* ensure_journal_date_section: if not journal_path.exists(): write_text
two_exists(r) ==
    /\ At(r, "exists")
    /\ journal_file' = IF journal_file.exists THEN journal_file
                       ELSE [exists |-> TRUE, content |-> JournalTitle]
    /\ Step(r)
    /\ UNCHANGED <<t_local, t_selected, t_current, t_wiki, t_index>>
    /\ UNCHANGED <<journalLog, historyVars, notTwoVars>>

\* content = journal_path.read_text()
two_read_text(r) ==
    /\ At(r, "read_text")
    /\ t_local' = [t_local EXCEPT ![r].content = journal_file.content]
    /\ Step(r)
    /\ UNCHANGED <<t_selected, t_current, t_wiki, t_index>>
    /\ UNCHANGED <<journal_file, journalLog, historyVars, notTwoVars>>

\* if header not in content: journal_path.write_text(content + header + "\n")
two_write_text(r) ==
    LET read   == [exists |-> TRUE, content |-> t_local[r].content]
        ensured == ensure_journal_date_section(read, Date1)
    IN  /\ At(r, "write_text")
        /\ journal_file' = IF ensured # read.content
                           THEN [exists |-> TRUE, content |-> ensured]
                           ELSE journal_file
        /\ Step(r)
        /\ UNCHANGED <<t_local, t_selected, t_current, t_wiki, t_index>>
        /\ UNCHANGED <<journalLog, historyVars, notTwoVars>>

\* lines = journal_path.read_text().splitlines(keepends=True)
two_read_lines(r) ==
    /\ At(r, "read_lines")
    /\ t_local' = [t_local EXCEPT ![r].content = journal_file.content]
    /\ Step(r)
    /\ UNCHANGED <<t_selected, t_current, t_wiki, t_index>>
    /\ UNCHANGED <<journal_file, journalLog, historyVars, notTwoVars>>

\* The entry of the run: what append_journal_entry is called with
two_entry(project) == entry_line(Time1, project, NameSync, SgBasic.recap)

\* journal_path.write_text("".join(lines)) with the entry inserted
two_write_lines(r) ==
    /\ At(r, "write_lines")
    /\ journal_file' =
           [exists |-> TRUE,
            content |-> write_lines(splitlines(t_local[r].content), Date1, Time1,
                                    t_local[r].project, NameSync, SgBasic.recap,
                                    detail_bullets(SgBasic))]
    /\ Step(r)
    /\ UNCHANGED <<t_local, t_selected, t_current, t_wiki, t_index>>
    /\ UNCHANGED <<journalLog, historyVars, notTwoVars>>

NextTwoRuns ==
    \/ select_project
    \/ start_recording
    \/ stop_recording
    \/ \E r \in Runs : two_save_transcript(r)
    \/ \E r \in Runs : two_save(r)
    \/ \E r \in Runs : two_complete_save_workflow(r)
    \/ \E r \in Runs : two_save_json_notes(r)
    \/ \E r \in Runs : two_update_index(r)
    \/ \E r \in Runs : two_upsert(r)
    \/ \E r \in Runs : two_exists(r)
    \/ \E r \in Runs : two_read_text(r)
    \/ \E r \in Runs : two_write_text(r)
    \/ \E r \in Runs : two_read_lines(r)
    \/ \E r \in Runs : two_write_lines(r)

SpecTwoRuns == InitTwoRuns /\ [][NextTwoRuns]_vars

---------------------------------------------------------------------------
(* The index race as a state machine: the run of meeting_2 saves its notes *)
(* and updates the index while the user opens the Meetings tab.            *)

\* The meeting of the run, and the meeting recorded before it
RunMeeting == 2

EarlierMeeting == 1

\* The index and the notes directory after the run of the earlier meeting
IndexOfEarlier ==
    builder_update_index_with_meeting(NoIndex, ProjectP, MeetingId(EarlierMeeting, ""),
                                      NotesFile(NotesB), 1, 2)

InitBuildRace ==
    /\ \E earlier \in BOOLEAN :
          /\ index_file = IF earlier THEN IndexOfEarlier ELSE NoIndex
          /\ json_notes_dir =
                 [n \in IndexMeetings |->
                     IF earlier /\ n = EarlierMeeting THEN NotesFile(NotesB) ELSE NoNotesFile]
          /\ clock = IF earlier THEN 3 ELSE 1
    /\ idx_prev = NoIndex
    /\ idx_call = NoIndexCall
    /\ idx_calls = 0
    /\ BuildIdle /\ HistoryIdle /\ HttpIdle /\ TwoIdle /\ RecorderIdle
    /\ WeeklyIdle
    /\ WikiIdle /\ JournalIdle /\ SearchIdle /\ MainWindowInit

notBuildVars ==
    <<wikiVars, journalVars, searchVars, historyVars, httpVars, twoVars, recorderVars, weeklyVars,
      workflowVars, idx_prev, idx_call, idx_calls>>

BuildGoto(t, pc) == b_pc' = [b_pc EXCEPT ![t] = pc]

\* _save_json_notes_and_update_index: json.dump(json_notes, f)
save_json_notes ==
    /\ b_pc["worker"] = "idle"
    /\ json_notes_dir' = [json_notes_dir EXCEPT ![RunMeeting] = NotesFile(NotesA)]
    /\ BuildGoto("worker", "load")
    /\ UNCHANGED <<index_file, clock, b_local, b_builds, notBuildVars>>

\* update_index_with_meeting: index = self._load_index(index_path)
update_load_index ==
    /\ b_pc["worker"] = "load"
    /\ b_local' = [b_local EXCEPT !["worker"].index = index_file]
    /\ BuildGoto("worker", "save")
    /\ UNCHANGED <<index_file, json_notes_dir, clock, b_builds, notBuildVars>>

\* update_index_with_meeting: the entry is made and appended to the index
\* that was loaded, self._save_index(index, index_path)
update_save_index ==
    /\ b_pc["worker"] = "save"
    /\ index_file' = builder_update_index_with_meeting(
                         b_local["worker"].index, ProjectP, MeetingId(RunMeeting, ""),
                         json_notes_dir[RunMeeting], clock, clock + 1)
    /\ clock' = clock + 2
    /\ BuildGoto("worker", "done")
    /\ UNCHANGED <<json_notes_dir, b_local, b_builds, notBuildVars>>

\* _load_meetings_list, build_project_index(project, force_rebuild=False):
\* existing_index = self._load_index(index_path)
build_load_index ==
    /\ b_pc["ui"] = "idle"
    /\ b_builds < MaxBuilds
    /\ b_builds' = b_builds + 1
    /\ b_local' = [b_local EXCEPT !["ui"].index = existing_of(index_file, FALSE)]
    /\ BuildGoto("ui", "scan")
    /\ UNCHANGED <<index_file, json_notes_dir, clock, notBuildVars>>

\* build_project_index: meeting_files = self._scan_meeting_files()
build_scan ==
    /\ b_pc["ui"] = "scan"
    /\ b_local' = [b_local EXCEPT !["ui"].notes_dir = json_notes_dir]
    /\ BuildGoto("ui", "save")
    /\ UNCHANGED <<index_file, json_notes_dir, clock, b_builds, notBuildVars>>

\* build_project_index: the entries of the index that was loaded and one
\* more for every scanned file, self._save_index(index, index_path)
build_save_index ==
    /\ b_pc["ui"] = "save"
    /\ index_file' = builder_build_project_index(
                         b_local["ui"].index, b_local["ui"].notes_dir, ProjectP, FALSE, clock)
    /\ clock' = clock + 1
    /\ BuildGoto("ui", "idle")
    /\ UNCHANGED <<json_notes_dir, b_local, b_builds, notBuildVars>>

NextBuildRace ==
    \/ save_json_notes
    \/ update_load_index
    \/ update_save_index
    \/ build_load_index
    \/ build_scan
    \/ build_save_index

SpecBuildRace == InitBuildRace /\ [][NextBuildRace]_vars

---------------------------------------------------------------------------
(* The indexes of two projects as a state machine: the runs index their    *)
(* meetings in the project that is selected, the Meetings tab builds the   *)
(* index of the project that is selected.  A run has ended before the next *)
(* recording starts; the notes directory is the one of the builder.        *)

\* The number of index calls (updates and builds)
MaxProjectCalls == 4

InitProjects == InitTwoRuns

notProjectVars ==
    <<wikiVars, journalVars, searchVars, historyVars, httpVars, buildVars, recorderVars, weeklyVars,
      workflowVars,
      index_file, idx_prev, idx_call, t_wiki>>

\* Step 7 of the run r as a whole: the notes file of its meeting is written
\* to json_notes and the index of the selected project is updated
index_meeting(r) ==
    LET project == t_selected
    IN  /\ idx_calls < MaxProjectCalls
        /\ t_pc[r] = 1
        /\ r = t_current
        /\ t_pc' = [t_pc EXCEPT ![r] = Finished]
        /\ t_local' = [t_local EXCEPT ![r].project = project, ![r].index_id = r]
        /\ json_notes_dir' = [json_notes_dir EXCEPT ![r] = NotesFile(NotesA)]
        /\ t_index' = [t_index EXCEPT ![project] =
               builder_update_index_with_meeting(@, project, MeetingId(r, ""),
                                                 NotesFile(NotesA), clock, clock + 1)]
        /\ clock' = clock + 2
        /\ idx_calls' = idx_calls + 1
        /\ UNCHANGED <<t_selected, t_current, notProjectVars>>

\* MainWindow._load_meetings_list: build_project_index(project,
\* force_rebuild=False) for the selected project
_load_meetings_list ==
    LET project == t_selected
    IN  /\ idx_calls < MaxProjectCalls
        /\ t_index' = [t_index EXCEPT ![project] =
               builder_build_project_index(@, json_notes_dir, project, FALSE, clock)]
        /\ clock' = clock + 1
        /\ idx_calls' = idx_calls + 1
        /\ UNCHANGED <<t_pc, t_local, t_selected, t_current, json_notes_dir, notProjectVars>>

NextProjects ==
    \/ select_project
    \/ start_recording
    \/ stop_recording
    \/ \E r \in Runs : index_meeting(r)
    \/ _load_meetings_list

SpecProjects == InitProjects /\ [][NextProjects]_vars

---------------------------------------------------------------------------
(* The weekly summary as a state machine: entries of two projects are      *)
(* appended to the journal, and the summary of a project filters them.     *)

InitWeekly ==
    /\ WeeklyIdle /\ RecorderIdle /\ BuildIdle /\ HistoryIdle /\ HttpIdle /\ TwoIdle
    /\ WikiIdle /\ JournalIdle /\ IndexIdle /\ SearchIdle /\ MainWindowInit

notWeeklyVars ==
    <<wikiVars, journalVars, indexVars, searchVars, historyVars, httpVars, twoVars,
      buildVars, recorderVars, workflowVars>>

\* append_journal_entry(project_wikis_dir, date_str, project, meeting,
\* recap_one_line, details_bullets) of a meeting of the project
weekly_append(date_str, project, details_bullets) ==
    /\ wk_entries < MaxWeeklyEntries
    /\ wk_journal' = [exists |-> TRUE,
                      content |-> append_journal_entry(wk_journal, date_str, Time1,
                                      project, NameSync, RecapGo, details_bullets).content]
    /\ wk_entries' = wk_entries + 1
    /\ UNCHANGED <<wk_call, wk_result, notWeeklyVars>>

\* _get_journal_data_for_week(project_wikis_dir, project_name, target_day)
\* up to the filtered sections
_get_journal_data_for_week(project_name) ==
    LET sections == _parse_journal_sections(wk_journal)
    IN  /\ wk_call' = [op |-> "filter", project_name |-> project_name,
                       sections |-> sections]
        /\ wk_result' = _filter_journal_sections_by_project(sections, project_name)
        /\ UNCHANGED <<wk_journal, wk_entries, notWeeklyVars>>

NextWeekly ==
    \/ \E d \in JournalDates, p \in WeeklyProjects, details \in WeeklyDetails :
          weekly_append(d, p, details)
    \/ \E p \in WeeklyProjects : _get_journal_data_for_week(p)

SpecWeekly == InitWeekly /\ [][NextWeekly]_vars

---------------------------------------------------------------------------
(* The recorder as a state machine: start and stop calls of the UI thread  *)
(* and the steps of the capture threads.                                   *)

InitRecorder ==
    /\ RecorderIdle /\ BuildIdle /\ HistoryIdle /\ HttpIdle /\ TwoIdle /\ WeeklyIdle
    /\ WikiIdle /\ JournalIdle /\ IndexIdle /\ SearchIdle /\ MainWindowInit

notRecorderVars ==
    <<wikiVars, journalVars, indexVars, searchVars, historyVars, httpVars, twoVars,
      buildVars, weeklyVars, workflowVars>>

\* What a call that returned leaves for the claims: its result and the
\* recorder as the call found it
Returns(op, result) ==
    rec_call' = [op |-> op, result |-> result, running |-> rec_running,
                 output_path |-> rec_output_path, stream |-> rec_stream,
                 thread |-> rec_thread]

\* PyAudioRecorder.start(output_path), the path being that of call number
\* rec_starts + 1
start ==
    /\ rec_ui = "idle"
    /\ rec_starts < MaxStarts
    /\ rec_starts' = rec_starts + 1
    /\ IF rec_running
       THEN /\ Returns("start", FALSE)
            /\ UNCHANGED <<rec_running, rec_output_path, rec_thread, rec_stream, rec_loops>>
       ELSE \E started \in {"ok", "no_pyaudio", "no_device"} :
              /\ rec_output_path' = IF started = "no_pyaudio" THEN rec_output_path
                                    ELSE rec_starts + 1
              /\ rec_stream' = IF started = "ok" THEN rec_starts + 1 ELSE None
              /\ rec_running' = (started = "ok")
              /\ rec_thread' = IF started = "ok" THEN rec_starts + 1 ELSE rec_thread
              /\ rec_loops' = IF started = "ok"
                              THEN [rec_loops EXCEPT ![rec_starts + 1] = "while"]
                              ELSE rec_loops
              /\ Returns("start", started = "ok")
    /\ UNCHANGED <<rec_ui, notRecorderVars>>

\* PyAudioRecorder.stop() up to self._thread.join(timeout=5)
stop ==
    /\ rec_ui = "idle"
    /\ IF ~rec_running /\ rec_thread = None
       THEN /\ Returns("stop", TRUE)
            /\ UNCHANGED <<rec_running, rec_ui>>
       ELSE /\ rec_running' = FALSE
            /\ IF is_alive(rec_thread)
               THEN /\ rec_ui' = "join"
                    /\ UNCHANGED rec_call
               ELSE /\ Returns("stop", TRUE)
                    /\ UNCHANGED rec_ui
    /\ UNCHANGED <<rec_output_path, rec_thread, rec_stream, rec_loops, rec_starts,
                   notRecorderVars>>

\* stop() after the join: the thread has ended, or the 5 seconds are over
\* and it is still alive
stop_joined ==
    /\ rec_ui = "join"
    /\ rec_ui' = "idle"
    /\ Returns("stop", ~is_alive(rec_thread))
    /\ UNCHANGED <<rec_running, rec_output_path, rec_thread, rec_stream, rec_loops,
                   rec_starts, notRecorderVars>>

RunLoopGoto(n, pc) == rec_loops' = [rec_loops EXCEPT ![n] = pc]

\* _run_loop of thread n: while self._running
_run_loop_while(n) ==
    /\ rec_loops[n] = "while"
    /\ RunLoopGoto(n, IF rec_running THEN "read" ELSE "cleanup")
    /\ UNCHANGED <<rec_running, rec_output_path, rec_thread, rec_stream, rec_ui,
                   rec_call, rec_starts, notRecorderVars>>

\* _run_loop of thread n: self._stream.read and self._wf.writeframes; an
\* OSError is retried, any other exception (also the one of a stream that
\* is None) leaves the loop
_run_loop_read(n) ==
    /\ rec_loops[n] = "read"
    /\ \E outcome \in {"frames", "OSError", "Exception"} :
          /\ rec_stream = None => outcome = "Exception"
          /\ RunLoopGoto(n, IF outcome = "Exception" THEN "cleanup" ELSE "while")
    /\ UNCHANGED <<rec_running, rec_output_path, rec_thread, rec_stream, rec_ui,
                   rec_call, rec_starts, notRecorderVars>>

\* _run_loop of thread n: finally: self._cleanup(), which closes what
\* self._stream, self._p and self._wf hold and sets them to None
_run_loop_cleanup(n) ==
    /\ rec_loops[n] = "cleanup"
    /\ rec_stream' = None
    /\ RunLoopGoto(n, "finished")
    /\ UNCHANGED <<rec_running, rec_output_path, rec_thread, rec_ui, rec_call,
                   rec_starts, notRecorderVars>>

NextRecorder ==
    \/ start
    \/ stop
    \/ stop_joined
    \/ \E n \in CaptureThreads : _run_loop_while(n)
    \/ \E n \in CaptureThreads : _run_loop_read(n)
    \/ \E n \in CaptureThreads : _run_loop_cleanup(n)

SpecRecorder == InitRecorder /\ [][NextRecorder]_vars

---------------------------------------------------------------------------
(* Claims about the wiki engine (checked under SpecWiki).                  *)

\* The lines of the wiki before and after the last call, as the engine reads them
PreLines == splitlines(read_content(w_prev))

PostLines == splitlines(read_content(wiki))

LastHeader == SECTION_TEMPLATE(w_args.date, w_args.name, w_args.meeting_id)

\* The last call found the section of its header in the file
SectionExisted == w_args # NoCall /\ _find_section_bounds(PreLines, LastHeader)[1] # 0

SectionAbsent == w_args # NoCall /\ _find_section_bounds(PreLines, LastHeader)[1] = 0

NonEmptyList(s) ==
    s.decisions # <<>> \/ s.actions # <<>> \/ s.risks # <<>> \/ s.open_questions # <<>>

\* C1: a call that repeats the call right before it (same date, name, id
\* and suggestions, at least one list non-empty) leaves the document as the
\* first call left it and reports that nothing was modified.
C1_UpsertIdempotent ==
    (w_repeat /\ NonEmptyList(w_args.suggestions)) => (wiki = w_prev /\ ~w_changed)

\* A line is a bullet when its trimmed text starts with "- "; its text is
\* what follows, trimmed
IsBullet(line) == startswith(strip(line), <<"-"," ">>)

BulletText(line) == strip(SubSeq(strip(line), 3, Len(strip(line))))

BulletTexts(sub_lines) ==
    {BulletText(sub_lines[i]) : i \in {j \in 1..Len(sub_lines) : IsBullet(sub_lines[j])}}

\* The candidates that are to be appended to a subsection holding old_lines:
\* the trimmed candidates that are not empty, not a bullet of old_lines and
\* not an earlier candidate, each written as a bullet line
RECURSIVE FreshBulletText(_, _, _)
FreshBulletText(old_lines, items, i) ==
    IF i > Len(items) THEN <<>>
    ELSE (IF /\ strip(items[i]) # <<>>
             /\ strip(items[i]) \notin BulletTexts(old_lines)
             /\ \A j \in 1..(i - 1) : strip(items[j]) # strip(items[i])
          THEN <<"-"," ">> \o strip(items[i]) \o <<"\n">>
          ELSE <<>>) \o FreshBulletText(old_lines, items, i + 1)

\* The body (the lines below the '### ' line) of subsection k of the section
\* of LastHeader among lines; <<>> when the subsection is not there
SubsectionBody(lines, k) ==
    LET b == _find_section_bounds(lines, LastHeader)
        sec == SubSeq(lines, b[1], b[2])
        sub == find_subsection(sec, SUBSECTIONS[k][1])
    IN  SubSeq(sec, sub[1] + 1, sub[2])

HasSubsection(lines, k) ==
    LET b == _find_section_bounds(lines, LastHeader)
    IN  b[1] # 0 /\ find_subsection(SubSeq(lines, b[1], b[2]), SUBSECTIONS[k][1])[1] # 0

Candidates(k) == items_of(w_args.suggestions, SUBSECTIONS[k][2])

\* A line of a subsection that the engine would not have written: a bullet
\* that is not "- <trimmed text>\n"
IsManualBullet(line) == IsBullet(line) /\ line # <<"-"," ">> \o BulletText(line) \o <<"\n">>

\* C2: when the section exists, every subsection that is there and gets
\* candidates keeps all its lines, in their order, and what is appended to
\* it is exactly the bullets of the candidates whose trimmed text is not
\* already one of its bullets.
C2_MergeKeepsManualBullets ==
    SectionExisted =>
        \A k \in 1..Len(SUBSECTIONS) :
            (Candidates(k) # <<>> /\ HasSubsection(PreLines, k)) =>
                /\ HasSubsection(PostLines, k)
                /\ join(SubsectionBody(PostLines, k)) =
                       join(SubsectionBody(PreLines, k))
                           \o FreshBulletText(SubsectionBody(PreLines, k), Candidates(k), 1)

\* C2 witness: a merge into a subsection that holds a hand-written bullet,
\* with one candidate that is already a bullet and one that is appended.
C2_Witness ==
    /\ SectionExisted
    /\ \E k \in 1..Len(SUBSECTIONS) :
          /\ HasSubsection(PreLines, k)
          /\ \E i \in 1..Len(SubsectionBody(PreLines, k)) :
                IsManualBullet(SubsectionBody(PreLines, k)[i])
          /\ \E i \in 1..Len(Candidates(k)) :
                strip(Candidates(k)[i]) \in BulletTexts(SubsectionBody(PreLines, k))
          /\ FreshBulletText(SubsectionBody(PreLines, k), Candidates(k), 1) # <<>>
          /\ w_changed

\* C3: all-empty suggestions on a document without the meeting's section
\* leave the document unchanged and return FALSE.
C3_EmptySuggestionsNoop ==
    (SectionAbsent /\ w_args.suggestions = SgEmpty) => (wiki = w_prev /\ ~w_changed)

\* The section headers among the lines of content that carry meeting_id
HeadersWithId(content, meeting_id) ==
    LET lines == splitlines(read_content(content))
    IN  {i \in 1..Len(lines) :
            /\ startswith(lines[i], <<"#","#"," ">>)
            /\ endswith(strip(lines[i]),
                        <<" ","<","!","-","-"," ","i","d",":">> \o meeting_id \o <<" ","-","-",">">>)}

\* C4: when the document holds one section of the meeting id (and date), a
\* call with that id and date, whatever the name, leaves exactly one
\* section header carrying the id.
C4_RenameKeepsOneSection ==
    (w_args # NoCall /\ Cardinality(HeadersWithId(w_prev, w_args.meeting_id)) = 1)
        => Cardinality(HeadersWithId(wiki, w_args.meeting_id)) = 1

\* The first line is a top-level heading: "# " after leading blanks
StartsWithHeading(lines) ==
    lines # <<>> /\ startswith(lstrip(lines[1]), <<"#"," ">>)

\* C21: when the first line of the document is a top-level "# " heading, a
\* call (an insertion or a merge) leaves that line the first line of the
\* document; so it stays the first line over every sequence of calls.
C21_HeadingStaysFirst ==
    (w_args # NoCall /\ StartsWithHeading(PreLines)) =>
        (PostLines # <<>> /\ PostLines[1] = PreLines[1])

\* C21 witness: below the heading the section of meeting_2, which no
\* starting document holds, was inserted by one call and merged into by the
\* next.
C21_Witness ==
    /\ w_calls = 2
    /\ SectionExisted
    /\ w_changed
    /\ w_args.meeting_id = Id2
    /\ StartsWithHeading(PreLines)
    /\ PostLines[1] = <<"#"," ","P"," ","W","i","k","i","\n">>

IsBlank(line) == strip(line) = <<>>

\* The lines at the top a new section goes below: the heading and the blank
\* lines right after it (0 without a heading)
HeadLen(lines) ==
    IF ~StartsWithHeading(lines) THEN 0
    ELSE CHOOSE h \in 1..Len(lines) :
            /\ \A i \in 2..h : IsBlank(lines[i])
            /\ h < Len(lines) => ~IsBlank(lines[h + 1])

\* The line of the last call's header in the document after the call
NewHeaderAt == _find_section_bounds(PostLines, LastHeader)[1]

\* The number of lines that were below the heading and its blank lines
BelowLen == Len(PreLines) - HeadLen(PreLines)

\* C22: a call that inserts a section leaves the heading and the blank lines
\* after it where they were, puts the header line below them with nothing
\* but blank lines between, and leaves every line that was below them, in
\* order, below the header.
C22_NewSectionOnTop ==
    SectionAbsent =>
        /\ NewHeaderAt > HeadLen(PreLines)
        /\ SubSeq(PostLines, 1, HeadLen(PreLines)) = SubSeq(PreLines, 1, HeadLen(PreLines))
        /\ \A i \in (HeadLen(PreLines) + 1)..(NewHeaderAt - 1) : IsBlank(PostLines[i])
        /\ NewHeaderAt <= Len(PostLines) - BelowLen
        /\ SubSeq(PostLines, Len(PostLines) - BelowLen + 1, Len(PostLines))
               = SubSeq(PreLines, HeadLen(PreLines) + 1, Len(PreLines))

\* C22 witness: the section of meeting_2 was inserted, then that of
\* meeting_1, whose header is above the header of meeting_2.
C22_Witness ==
    /\ w_calls = 2
    /\ SectionAbsent
    /\ StartsWithHeading(PreLines)
    /\ w_args.meeting_id = Id1
    /\ HeadersWithId(w_prev, Id1) = {}
    /\ HeadersWithId(w_prev, Id2) # {}
    /\ \A i \in HeadersWithId(wiki, Id1) : \A j \in HeadersWithId(wiki, Id2) : i < j

\* The number of blank lines right above line i
RECURSIVE BlankRunBefore(_, _)
BlankRunBefore(lines, i) ==
    IF i > 1 /\ IsBlank(lines[i - 1]) THEN 1 + BlankRunBefore(lines, i - 1) ELSE 0

\* C23: a call that inserts a section below a heading and above other
\* content leaves exactly one blank line above the new header and exactly
\* one blank line above the content that follows the new block.
C23_OneBlankLineAround ==
    (SectionAbsent /\ StartsWithHeading(PreLines) /\ BelowLen > 0) =>
        /\ BlankRunBefore(PostLines, NewHeaderAt) = 1
        /\ BlankRunBefore(PostLines, Len(PostLines) - BelowLen + 1) = 1

\* Every "### " line is followed by a bullet line
WellBulleted(lines) ==
    \A i \in 1..Len(lines) :
        startswith(lines[i], <<"#","#","#"," ">>) =>
            (i < Len(lines) /\ IsBullet(lines[i + 1]))

\* C24: a call on a document in which every "### " line is followed by a
\* bullet leaves such a document: it writes no "### " line without a bullet
\* below it.
C24_NoEmptySubsection ==
    (w_args # NoCall /\ WellBulleted(PreLines)) => WellBulleted(PostLines)

\* The lines of after are the first `above` lines of before, then lines of
\* any kind, then the lines of before from line `below` on
KeptAround(before, after, above, below) ==
    LET tail == Len(before) - below + 1
    IN  /\ Len(after) >= above + tail
        /\ SubSeq(after, 1, above) = SubSeq(before, 1, above)
        /\ SubSeq(after, Len(after) - tail + 1, Len(after))
               = SubSeq(before, below, Len(before))

\* C32: a call changes nothing outside the target meeting.  A merge leaves
\* every line above the header of the target section and every line from
\* the next "## " heading on where it was, verbatim and in order; an
\* insertion leaves every line of the document, verbatim and in order, the
\* new block standing between two of them.
C32_OtherContentKept ==
    /\ SectionExisted =>
          LET b == _find_section_bounds(PreLines, LastHeader)
          IN  KeptAround(PreLines, PostLines, b[1] - 1, b[2] + 1)
    /\ SectionAbsent =>
          \E i \in 0..Len(PreLines) : KeptAround(PreLines, PostLines, i, i + 1)

\* C32 witness: a merge that changed the section of meeting_1, which stands
\* below the heading and above a hand-written section
C32_Witness ==
    /\ SectionExisted
    /\ w_changed
    /\ LET b == _find_section_bounds(PreLines, LastHeader)
       IN  /\ b[1] > 1
           /\ b[2] < Len(PreLines)
           /\ PreLines[b[2] + 1] = <<"#","#"," ","O","l","d","\n">>

\* The bullets of body have pairwise different trimmed texts
DistinctBullets(body) ==
    \A i, j \in 1..Len(body) :
        (i < j /\ IsBullet(body[i]) /\ IsBullet(body[j]))
            => BulletText(body[i]) # BulletText(body[j])

\* C33: the section of meeting_2, which no starting document holds and
\* which only the calls write, never has a subsection with two bullets of
\* the same trimmed text.
C33_NoDuplicateBullets ==
    LET lines == splitlines(read_content(wiki))
        b == _find_section_bounds(lines, SECTION_TEMPLATE(Date1, NameSync, Id2))
        sec == SubSeq(lines, b[1], b[2])
    IN  b[1] # 0 =>
            \A k \in 1..Len(SUBSECTIONS) :
                LET sub == find_subsection(sec, SUBSECTIONS[k][1])
                IN  sub[1] # 0 => DistinctBullets(SubSeq(sec, sub[1] + 1, sub[2]))

---------------------------------------------------------------------------
(* Claims about the workflow (checked under Spec).                         *)

\* The run has an entry of that operation with that result in its log
Has(r, op, result) ==
    \E i \in DOMAIN log[r] : log[r][i].op = op /\ log[r][i].result = result

\* The entries of the run's log after entry i
After(r, i) == SubSeq(log[r], i + 1, Len(log[r]))

\* The worker thread of the run has not returned yet
InFlight(r) == complete_workflow[r] # "done"

\* The stages of a run in the order the workflow is described to have
Stages ==
    <<"recorder_stop", "transcribe", "generate", "json_notes", "wiki", "journal",
      "index">>

IsStage(e) == \E k \in DOMAIN Stages : Stages[k] = e.op

StageNo(e) == CHOOSE k \in DOMAIN Stages : Stages[k] = e.op

Succeeded(e) == e.result \in {"ok", "text", "suggestions", "written", "updated"}

\* C5: within one run the side effects occur in the order recorder stop,
\* transcription, suggestion generation, JSON-notes write, wiki upsert,
\* journal append, index update; every stage that ran before another one
\* succeeded, and the index update comes after a successful wiki upsert and
\* a successful journal append of the run.
C5_StagesInOrder ==
    \A r \in DOMAIN log : \A j \in DOMAIN log[r] :
        IsStage(log[r][j]) =>
            /\ \A i \in 1..(j - 1) :
                   IsStage(log[r][i]) =>
                       /\ StageNo(log[r][i]) < StageNo(log[r][j])
                       /\ Succeeded(log[r][i])
            /\ log[r][j].op = "index" =>
                   /\ \E i \in 1..(j - 1) : log[r][i] = Event("wiki", log[r][i].arg, "written")
                   /\ \E i \in 1..(j - 1) : log[r][i] = Event("journal", None, "written")

\* C6: while a run is in flight (its worker thread was started and has not
\* emitted Saved or Error yet) no step starts a recording or replaces the
\* current meeting id or the audio path, and at most one run is in flight.
C6_OneRunInFlight ==
    [][(\E r \in DOMAIN complete_workflow : InFlight(r)) =>
           /\ _current_meeting_id' = _current_meeting_id
           /\ _last_audio_path' = _last_audio_path
           /\ _recorder'._running => _recorder._running
           /\ Cardinality({r \in DOMAIN complete_workflow' :
                               complete_workflow'[r] # "done"}) <= 1]_vars

\* C7: a run whose transcription failed (service unavailable, another
\* error, or an empty transcript) has emitted Error right after it and has
\* returned: its log holds nothing else after the transcription, so the
\* suggestion backend was not called and no notes, wiki, journal or index
\* write was made; when it is the only run, no file was written at all.
C7_TranscriptionFailureStops ==
    \A r \in DOMAIN log : \A i \in DOMAIN log[r] :
        (log[r][i].op = "transcribe" /\ log[r][i].result # "text") =>
            /\ ~InFlight(r)
            /\ After(r, i) = <<Emitted("Error")>>
            /\ Len(log) = 1 => disk = NoFiles

\* A run whose backend returned an empty transcript has returned
C7_Witness ==
    \E r \in DOMAIN log : Has(r, "transcribe", "empty") /\ ~InFlight(r)

\* C8: in the UpdatingWiki stage a failed sub-step (JSON-notes save, wiki
\* upsert, journal append) is the last sub-step of the run and the run ends
\* in Error: after the failure the log holds the Error emission only.
C8_SubStepFailureAborts ==
    \A r \in DOMAIN log : \A i \in DOMAIN log[r] :
        (log[r][i].op \in {"json_notes", "wiki", "journal"} /\ log[r][i].result = "failed") =>
            /\ ~InFlight(r)
            /\ After(r, i) = <<Emitted("Error")>>

\* C9: a run that emitted Saved has produced and saved the transcript,
\* generated the suggestions and written the JSON-notes file, the wiki
\* section and the journal entry.
C9_SavedOnlyIfAllWritten ==
    \A r \in DOMAIN log :
        Has(r, "emit", "Saved") =>
            /\ Has(r, "transcribe", "text")
            /\ Has(r, "save_transcript", "saved")
            /\ Has(r, "generate", "suggestions")
            /\ Has(r, "json_notes", "written")
            /\ Has(r, "wiki", "written")
            /\ Has(r, "journal", "written")

\* C10: a failed index update is not followed by Error: a run emits Error
\* after the UpdatingWiki status only when its wiki upsert or journal append
\* failed, and a run that has returned with transcript, suggestions, notes,
\* wiki and journal done has Saved as its last emission.
C10_IndexFailureNotError ==
    \A r \in DOMAIN log :
        /\ (Has(r, "index", "failed") /\ Has(r, "emit", "Error")) =>
               (Has(r, "wiki", "failed") \/ Has(r, "journal", "failed"))
        /\ (/\ ~InFlight(r)
            /\ Has(r, "save_transcript", "saved")
            /\ Has(r, "generate", "suggestions")
            /\ Has(r, "json_notes", "written")
            /\ Has(r, "wiki", "written")
            /\ Has(r, "journal", "written")) =>
               log[r][Len(log[r])] = Emitted("Saved")

\* A run whose index update failed has returned with Saved
C10_Witness ==
    \E r \in DOMAIN log :
        /\ Has(r, "index", "failed")
        /\ ~InFlight(r)
        /\ log[r][Len(log[r])] = Emitted("Saved")

\* The step is a stop() that returned False: the recorder was running and
\* its capture thread is still alive after the join
StopFailedStep ==
    _recorder._running /\ ~_recorder'._running /\ _recorder'.alive

TerminalStatus == {"Error", "Saved"}

\* The slot delivers a terminal status a workflow run emitted
DeliversTerminal ==
    /\ ui_set_status # <<>>
    /\ Head(ui_set_status).status \in TerminalStatus
    /\ ui_set_status' = Tail(ui_set_status)

\* Error or Saved is shown and the reset timer is running
Armed(s) == status = s /\ _status_reset_timer

\* The handlers other than the timer's that set the status
StatusHandler ==
    \/ _on_record_toggle_clicked
    \/ _on_weekly_clicked
    \/ _on_weekly_closed
    \/ _on_wiki_save
    \/ _start_complete_workflow
    \/ ui_set_status_slot

\* C26: a terminal status a workflow run emitted is shown with the reset
\* timer running; while Error or Saved is shown with the timer running, a
\* step that ends this and is not another handler setting the status puts
\* the status to Ready; and Error or Saved is never shown with the timer
\* running forever.
C26_TerminalStatusReverts ==
    /\ [][DeliversTerminal =>
            /\ status' = Head(ui_set_status).status
            /\ _status_reset_timer']_vars
    /\ [][\A s \in TerminalStatus :
            (Armed(s) /\ ~Armed(s)' /\ ~StatusHandler) => status' = "Ready"]_vars
    /\ \A s \in TerminalStatus : Armed(s) ~> ~Armed(s)

\* C26 witness: a run has ended, its last emission was delivered and the
\* status was then reset to Ready by the timer.
C26_Witness ==
    /\ status = "Ready"
    /\ ~_status_reset_timer
    /\ ui_set_status = <<>>
    /\ \E r \in DOMAIN log :
          /\ ~InFlight(r)
          /\ \E s \in TerminalStatus : log[r][Len(log[r])] = Emitted(s)
    /\ recordings = 1
    /\ ~_recorder._running

\* The statuses the run r has emitted, in order
RECURSIVE emitted_statuses(_)
emitted_statuses(events) ==
    IF events = <<>> THEN <<>>
    ELSE (IF Head(events).op = "emit" THEN <<Head(events).result>> ELSE <<>>)
             \o emitted_statuses(Tail(events))

ProcessingStatuses == <<"ProcessingTranscript", "GeneratingSummary", "UpdatingWiki">>

IsPrefix(s, t) == Len(s) <= Len(t) /\ \A i \in DOMAIN s : s[i] = t[i]

\* C30: the statuses of a run are a prefix of ProcessingTranscript,
\* GeneratingSummary, UpdatingWiki while it executes, and that prefix
\* followed by exactly one of Saved and Error once it has returned; no
\* status follows the terminal one.
C30_StatusSequence ==
    \A r \in DOMAIN log :
        LET e == emitted_statuses(log[r])
        IN  IF InFlight(r) THEN IsPrefix(e, ProcessingStatuses)
            ELSE /\ e # <<>>
                 /\ e[Len(e)] \in TerminalStatus
                 /\ IsPrefix(SubSeq(e, 1, Len(e) - 1), ProcessingStatuses)

\* A run went through every stage and emitted Saved last
C30_Witness ==
    \E r \in DOMAIN log :
        /\ ~InFlight(r)
        /\ emitted_statuses(log[r]) = ProcessingStatuses \o <<"Saved">>

\* The run r has returned: its last event is the emission of Saved or Error
Returned(r) ==
    /\ r \in DOMAIN complete_workflow
    /\ ~InFlight(r)
    /\ log[r] # <<>>
    /\ \E s \in TerminalStatus : log[r][Len(log[r])] = Emitted(s)

\* C31, the order: the step with which a run returns emits Saved or Error
\* as the last thing the run does and leaves _transcribing false
C31_FlagClearedOnReturn ==
    \A r \in DOMAIN complete_workflow :
        (InFlight(r) /\ r \in DOMAIN complete_workflow' /\ ~InFlight(r)')
            => (Returned(r)' /\ ~_transcribing')

\* C31: every started run terminates, whichever stage fails or succeeds: it
\* eventually has returned with Saved or Error emitted last, and the step
\* that returns clears the in-progress flag.
C31_RunTerminates ==
    /\ [][C31_FlagClearedOnReturn]_vars
    /\ \A r \in 1..MaxRuns :
          (r \in DOMAIN complete_workflow /\ InFlight(r)) ~> Returned(r)

\* C31 witness: a run got as far as the wiki stage, failed there, emitted
\* Error and returned with the flag cleared
C31_Witness ==
    \E r \in DOMAIN log :
        /\ Returned(r)
        /\ ~_transcribing
        /\ Has(r, "wiki", "failed")

---------------------------------------------------------------------------
(* Claims about the journal (checked under SpecJournal).                   *)

\* The lines of the journal file
JournalLines == splitlines(journal_file.content)

\* The lines that read "## <date_str>"
HeaderLines(date_str) ==
    LET lines == JournalLines
    IN  {i \in DOMAIN lines : lines[i] = date_header(date_str)}

\* C13: the journal holds exactly one line "## <date>" for every date a
\* call was made for, and an ensure call that repeats the call before it
\* leaves the file as it was.
C13_OneHeaderPerDate ==
    /\ \A d \in j_dates : Cardinality(HeaderLines(d)) = 1
    /\ (j_call.op = "ensure" /\ j_repeat) => journal_file = j_prev

\* The lines an append call with the arguments of the last call, made at
\* now_hhmm, adds to the file
BlockLines(now_hhmm) ==
    splitlines(join(<<entry_line(now_hhmm, ProjectP, NameSync, j_call.recap_one_line)>>
                        \o detail_lines(j_call.details_bullets) \o << <<"\n">> >>))

\* The entry the last append call wrote, and the one written before it
NewEntry == j_entries[Len(j_entries)]

OldEntry == j_entries[Len(j_entries) - 1]

\* The lines from..to are blank
BlankLines(lines, from, to) == \A i \in from..to : strip(lines[i]) = <<>>

\* C14: after an append call with the arguments of the append call before
\* it, the file holds the entry line and detail bullets of both calls, the
\* new ones right before the old ones, after the header of the date and the
\* blank lines that follow it; without the lines of the new entry the file
\* is the file before the call.
C14_AppendNeverDeduplicates ==
    (j_call.op = "append" /\ j_repeat) =>
        LET new   == BlockLines(NewEntry.now_hhmm)
            old   == BlockLines(OldEntry.now_hhmm)
            lines == JournalLines
            h     == index_of(lines, date_header(j_call.date_str), 1)
        IN  /\ OldEntry.date_str = j_call.date_str
            /\ h > 0 /\ h < NewEntry.at
            /\ BlankLines(lines, h + 1, NewEntry.at - 1)
            /\ SubSeq(lines, NewEntry.at, NewEntry.at + Len(new) - 1) = new
            /\ OldEntry.at = NewEntry.at + Len(new)
            /\ SubSeq(lines, OldEntry.at, OldEntry.at + Len(old) - 1) = old
            /\ SubSeq(lines, 1, NewEntry.at - 1) \o SubSeq(lines, OldEntry.at, Len(lines))
                   = splitlines(j_prev.content)

\* Two append calls with the same arguments were made, with detail bullets,
\* after an entry for another date
C14_Witness ==
    /\ j_call.op = "append" /\ j_repeat
    /\ j_call.details_bullets # <<>>
    /\ \E n \in DOMAIN j_entries : j_entries[n].date_str # j_call.date_str

\* C15: the entry line of an append call for date D comes after the line
\* "## D" with only blank lines between them, so before the next "## "
\* header; the line after the inserted lines is not blank; and every entry
\* written for D before lies further down.
C15_EntryRightAfterHeader ==
    (j_call.op = "append") =>
        LET new   == BlockLines(NewEntry.now_hhmm)
            lines == JournalLines
            h     == index_of(lines, date_header(j_call.date_str), 1)
            after == NewEntry.at + Len(new)
        IN  /\ h > 0 /\ h < NewEntry.at
            /\ BlankLines(lines, h + 1, NewEntry.at - 1)
            /\ lines[NewEntry.at] = Head(new)
            /\ \A i \in (h + 1)..NewEntry.at : ~startswith(lines[i], <<"#","#"," ">>)
            /\ after <= Len(lines) => strip(lines[after]) # <<>>
            /\ \A n \in 1..(Len(j_entries) - 1) :
                   j_entries[n].date_str = j_call.date_str
                       => j_entries[n].at > NewEntry.at

\* An entry was written for a date that already had an entry, while the
\* section of another date follows in the file
C15_Witness ==
    /\ j_call.op = "append"
    /\ \E n \in 1..(Len(j_entries) - 1) : j_entries[n].date_str = j_call.date_str
    /\ \E d \in j_dates :
           /\ d # j_call.date_str
           /\ index_of(JournalLines, date_header(d), 1) > NewEntry.at

---------------------------------------------------------------------------
(* Claims about the persisted index (checked under SpecIndex).             *)

\* The positions of the entries of meeting_id
EntriesOf(meetings, meeting_id) ==
    {i \in DOMAIN meetings : meetings[i].meeting_id = meeting_id}

\* The four lists of an index entry
ListsOf(entry) ==
    Notes(entry.decisions, entry.action_items, entry.risks, entry.open_questions)

\* C16: after update_index_with_meeting for a meeting id the persisted
\* index holds exactly one entry with that id, its four lists are those of
\* the notes file at the time of the call, and the entries of the other
\* ids are the ones the index held before, in the same order.
C16_UpdateReplacesEntry ==
    (idx_call.op = "update") =>
        LET meeting_id == MeetingId(idx_call.n, "")
            mine == EntriesOf(index_file.meetings, meeting_id)
        IN  /\ Cardinality(mine) = 1
            /\ \A i \in mine :
                   ListsOf(index_file.meetings[i]) = json_notes_dir[idx_call.n].data
            /\ without(index_file.meetings, meeting_id)
                   = without(idx_prev.meetings, meeting_id)

\* The meeting was in the index with other lists than its notes file now
\* holds, next to the entry of another meeting, and was updated again
C16_Witness ==
    /\ idx_call.op = "update"
    /\ \E i \in EntriesOf(idx_prev.meetings, MeetingId(idx_call.n, "")) :
           ListsOf(idx_prev.meetings[i]) # json_notes_dir[idx_call.n].data
    /\ without(idx_prev.meetings, MeetingId(idx_call.n, "")) # <<>>

\* C17: the persisted index counts its entries in total_meetings, holds no
\* two entries with the same meeting id and lists them newest first.
C17_IndexWellFormed ==
    index_file.exists =>
        LET meetings == index_file.meetings
        IN  /\ index_file.total_meetings = Len(meetings)
            /\ \A i, j \in DOMAIN meetings :
                   meetings[i].meeting_id = meetings[j].meeting_id => i = j
            /\ \A i, j \in DOMAIN meetings :
                   i < j => meetings[i].timestamp >= meetings[j].timestamp

\* The index was written by updates and builds and holds entries of two
\* timestamps
C17_Witness ==
    /\ idx_call.op = "build"
    /\ \E i \in DOMAIN index_file.meetings : index_file.meetings[i].meeting_id.suffix = ""
    /\ \E i, j \in DOMAIN index_file.meetings :
           index_file.meetings[i].timestamp # index_file.meetings[j].timestamp

\* C18: an incremental build keeps the entries of the persisted index as
\* they are and adds exactly one entry for every scanned notes file whose
\* id (the file stem) is not an id of the index.
C18_IncrementalBuildKeeps ==
    (idx_call.op = "build" /\ ~idx_call.force_rebuild) =>
        LET old   == idx_prev.meetings
            new   == index_file.meetings
            fresh == _scan_meeting_files(json_notes_dir) \ meeting_ids(old)
            WasThere(e) == e.meeting_id \in meeting_ids(old)
        IN  /\ SelectSeq(new, WasThere) = old
            /\ Len(new) = Len(old) + Cardinality(fresh)
            /\ \A id \in fresh :
                   /\ Cardinality(EntriesOf(new, id)) = 1
                   /\ \A i \in EntriesOf(new, id) :
                          new[i] = from_meeting_data(id, ProjectP, json_notes_dir[id.n])

\* An incremental build found an index with the entry of a scanned file
\* whose notes have changed since, and a scanned file that had no entry
C18_Witness ==
    /\ idx_call.op = "build" /\ ~idx_call.force_rebuild
    /\ \E i \in DOMAIN idx_prev.meetings :
           /\ idx_prev.meetings[i].meeting_id.suffix = "_notes"
           /\ ListsOf(idx_prev.meetings[i])
                  # json_notes_dir[idx_prev.meetings[i].meeting_id.n].data
    /\ _scan_meeting_files(json_notes_dir) \ meeting_ids(idx_prev.meetings) # {}

\* C19: a build or update that finds a persisted index leaves its
\* created_at as it is, and every build or update sets updated_at to the
\* time of the call.
C19_CreatedAtFixed ==
    (idx_call.op \in {"build", "update"}) =>
        /\ idx_prev.exists => index_file.created_at = idx_prev.created_at
        /\ index_file.updated_at = clock - 1
        /\ idx_prev.exists => index_file.updated_at > idx_prev.updated_at

\* No two entries of the index are entries of the same recorded meeting,
\* whatever the form of the id they carry
OneEntryPerMeeting(index) ==
    \A i, j \in DOMAIN index.meetings :
        i # j => index.meetings[i].meeting_id.n # index.meetings[j].meeting_id.n

\* Every entry of the index was written by update_index_with_meeting
WrittenByUpdate(index) ==
    \A i \in DOMAIN index.meetings : index.meetings[i].meeting_id.suffix = ""

\* C36: an incremental build on an index whose entries the workflow wrote
\* with update_index_with_meeting, one for each meeting, leaves one entry
\* for each meeting, also when the notes directory holds the notes files of
\* these meetings.
C36_OneEntryPerMeeting ==
    (/\ idx_call.op = "build"
     /\ ~idx_call.force_rebuild
     /\ idx_prev.exists
     /\ WrittenByUpdate(idx_prev)
     /\ OneEntryPerMeeting(idx_prev)) => OneEntryPerMeeting(index_file)

---------------------------------------------------------------------------
(* Claims about the search (checked under SpecSearch).                     *)

\* The query of the last search as search_index reads it
QueryLower == lower(s_call.query)

QueryWords == split(QueryLower, 1)

\* The score of an entry for the query of the last search (in halves)
ScoreOf(meeting) == _calculate_relevance_score(meeting, QueryLower, QueryWords)

\* The matches of an entry: <<field, 0>> for the phrase found in the field,
\* <<field, k>> for the k-th query word found in it
MatchesOf(meeting) ==
    LET fields == search_fields(meeting)
        found  == {f \in DOMAIN fields : fields[f][1] # <<>>}
    IN  {<<f, 0>> : f \in {g \in found : contains(fields[g][1], QueryLower)}}
            \cup {m \in found \X DOMAIN QueryWords :
                      contains(fields[m[1]][1], QueryWords[m[2]])}

\* The meeting_name holds the whole query phrase
NameHoldsPhrase(meeting) == contains(lower(meeting.meeting_name), QueryLower)

\* The entry matches in its transcript only, and with one query word only
OneWordInTranscript(meeting) ==
    LET matches == MatchesOf(meeting)
    IN  /\ matches # {}
        /\ \A m \in matches : m[1] = Len(search_fields(meeting))
        /\ Cardinality({QueryWords[m[2]] : m \in {x \in matches : x[2] > 0}}) = 1

\* Where the search returned the entry (0: not returned)
RankOf(meeting) == index_of(s_results, meeting, 1)

\* C20: in the result of a search, an entry whose meeting_name holds the
\* whole query phrase comes before every returned entry that matches with
\* one query word in its transcript only; no returned entry has score 0;
\* at most max_results entries are returned, each an entry of the index
\* returned once, in non-increasing order of score.
C20_SearchRanking ==
    (s_call.op = "search") =>
        /\ \A i, j \in DOMAIN s_meetings :
               (/\ NameHoldsPhrase(s_meetings[i])
                /\ OneWordInTranscript(s_meetings[j])
                /\ RankOf(s_meetings[j]) > 0)
                   => /\ RankOf(s_meetings[i]) > 0
                      /\ RankOf(s_meetings[i]) < RankOf(s_meetings[j])
        /\ \A k \in DOMAIN s_results :
               /\ ScoreOf(s_results[k]) > 0
               /\ \E i \in DOMAIN s_meetings : s_meetings[i] = s_results[k]
        /\ \A k, l \in DOMAIN s_results :
               /\ (s_results[k] = s_results[l] => k = l)
               /\ (k < l => ScoreOf(s_results[k]) >= ScoreOf(s_results[l]))
        /\ Len(s_results) <= s_call.max_results

\* A search returned an entry that matches with one query word in its
\* transcript only, indexed before an entry whose name holds the phrase
C20_Witness ==
    /\ s_call.op = "search"
    /\ \E i, j \in DOMAIN s_meetings :
           /\ j < i
           /\ NameHoldsPhrase(s_meetings[i])
           /\ OneWordInTranscript(s_meetings[j])
           /\ RankOf(s_meetings[j]) > 0
    /\ \E i \in DOMAIN s_meetings : ScoreOf(s_meetings[i]) = 0

---------------------------------------------------------------------------
(* Claims about re-running the persist stages (checked under SpecPersist). *)

\* The lines of content that start an entry: "- [HH:MM] ..."
EntryLines(content) ==
    LET lines == splitlines(content)
    IN  {i \in DOMAIN lines : startswith(lines[i], <<"-"," ","[">>)}

\* C12: a run of the persist stages with the arguments of the run before
\* it leaves the wiki document and the entries of the index as that run
\* left them, with one section and one index entry for the meeting, and
\* adds exactly one entry line to the journal.
C12_RerunConverges ==
    w_repeat =>
        /\ wiki = w_prev
        /\ Cardinality(HeadersWithId(wiki, Id1)) = 1
        /\ index_file.meetings = idx_prev.meetings
        /\ Cardinality(EntriesOf(index_file.meetings, MeetingId(1, ""))) = 1
        /\ Cardinality(EntryLines(journal_file.content))
               = Cardinality(EntryLines(j_prev.content)) + 1

---------------------------------------------------------------------------
(* Claims about the meeting history (checked under SpecHistory).           *)

\* The fields add_or_update copies from the record it is given
UpdatedFields ==
    {"name", "date", "project_name", "transcript_path", "summary_path", "full_audio_path"}

\* The id of the last add_or_update call was the id of a record
IdWasPresent ==
    h_call.op = "add_or_update" /\ existing(h_prev, h_call.rec.meeting_id) # 0

\* C25: no two records share a meeting_id; add_or_update with an id that is
\* present changes only that record, where it stands, taking the fields of
\* the new record and keeping its json_notes_path, and with a new id
\* appends the record; after every call the file holds one entry per
\* record, in order, with the record's fields.
C25_HistoryIdsUnique ==
    /\ \A i, j \in 1..Len(history_records) :
          history_records[i].meeting_id = history_records[j].meeting_id => i = j
    /\ IdWasPresent =>
          LET at == CHOOSE i \in 1..Len(h_prev) :
                        h_prev[i].meeting_id = h_call.rec.meeting_id
          IN  /\ Len(history_records) = Len(h_prev)
              /\ \A i \in 1..Len(h_prev) : i # at => history_records[i] = h_prev[i]
              /\ history_records[at].meeting_id = h_call.rec.meeting_id
              /\ history_records[at].json_notes_path = h_prev[at].json_notes_path
              /\ \A k \in UpdatedFields : history_records[at][k] = h_call.rec[k]
    /\ (h_call.op = "add_or_update" /\ ~IdWasPresent) =>
          history_records = Append(h_prev, h_call.rec)
    /\ h_call # NoHistoryCall =>
          /\ history_file.exists
          /\ Len(history_file.payload) = Len(history_records)
          /\ \A i \in 1..Len(history_records) :
                /\ history_file.payload[i].meeting_id = history_records[i].meeting_id
                /\ history_file.payload[i].name = history_records[i].name
                /\ ("json_notes_path" \in DOMAIN history_file.payload[i])
                       = (history_records[i].json_notes_path # NoPath)

\* C25 witness: a record that stands first of two and has a json_notes_path
\* was updated in place with another name.
C25_Witness ==
    /\ IdWasPresent
    /\ Len(history_records) = 2
    /\ history_records[1].meeting_id = h_call.rec.meeting_id
    /\ history_records[1].json_notes_path = NotesPath
    /\ history_records[1].name # h_prev[1].name

---------------------------------------------------------------------------
(* Claims about the HTTP backends (checked under SpecHttp).                *)

\* The answer is an HTTP response with a client-class status
ClientError(r) == r.raised = NoError /\ 400 <= r.status_code /\ r.status_code < 500

\* The answer is a network error or an HTTP response with a 5xx status
Transient(r) ==
    \/ r.raised = "RequestException"
    \/ r.raised = NoError /\ 500 <= r.status_code /\ r.status_code < 600

TranscriptionLoops == {"transcribe", "_post_whisper"}

\* The request i of the call was followed by a retry: a request of the same
\* loop for the same chunk
Retried(i) ==
    /\ i < Len(http_requests)
    /\ http_requests[i + 1].loop = http_requests[i].loop
    /\ http_requests[i + 1].chunk = http_requests[i].chunk
    /\ http_requests[i + 1].attempt = http_requests[i].attempt + 1

\* The backend raised a generic error: its call is over
BackendFailed ==
    /\ http_pc \in {"done", "primary_raised"}
    /\ http_raised = "Exception"

\* The step posts a request
Posts == http_requests' # http_requests /\ http_requests' # <<>>

\* The answer to the request the step posts
Answer == http_requests'[Len(http_requests')]

\* C27, first part: after a client error (for a transcription request:
\* other than 413) the backend posts nothing more and raises a generic error
C27_ClientErrorEndsCall ==
    (/\ Posts
     /\ ClientError(Answer.response)
     /\ ~(Answer.loop \in TranscriptionLoops /\ Answer.response.status_code = 413))
        => BackendFailed'

\* C27, second part: a request is retried only after a network error or a
\* 5xx response
C27_OnlyTransientRetried ==
    \A i \in DOMAIN http_requests : Retried(i) => Transient(http_requests[i].response)

\* C27, third part: at most 3 retries follow the first attempt
C27_AtMostThreeRetries ==
    \A i \in DOMAIN http_requests : http_requests[i].attempt <= 1 + 3

\* C27: a client error (other than 413 for transcription) ends the call of
\* the backend with a generic error and without another request; only
\* network errors and 5xx responses are retried; at most 3 retries follow
\* the first attempt.
C27_RetryPolicy ==
    /\ [][C27_ClientErrorEndsCall]_vars
    /\ []C27_OnlyTransientRetried
    /\ []C27_AtMostThreeRetries

\* C28: when transcribe raises TranscriptionUnavailable or
\* SuggestionGenerator.generate raises SuggestionUnavailable, no HTTP
\* request was issued during the call.
C28_UnavailableBeforeAnyRequest ==
    (http_pc = "done" /\ http_raised \in {"TranscriptionUnavailable", "SuggestionUnavailable"})
        => http_requests = <<>>

---------------------------------------------------------------------------
(* Claims about two runs at a time (checked under SpecTwoRuns).            *)

BothFinished == \A r \in Runs : t_pc[r] = Finished

\* The history file has a record of the meeting id
InHistoryFile(n) ==
    \E i \in DOMAIN history_file.payload : history_file.payload[i].meeting_id = meeting_(n)

\* The index of the project has an entry of the meeting id
InIndex(project, n) ==
    \E i \in DOMAIN t_index[project].meetings :
        t_index[project].meetings[i].meeting_id = MeetingId(n, "")

\* C29: after two runs for different projects have both finished, the
\* shared journal holds the entries of both, the shared history file holds
\* the records both saved, and the wiki and the index of each project hold
\* the section and the entry its run wrote, however the runs interleaved.
C29_NoLostUpdate ==
    (BothFinished /\ t_local[1].project # t_local[2].project) =>
        \A r \in Runs :
            /\ contains(journal_file.content, two_entry(t_local[r].project))
            /\ InHistoryFile(t_local[r].record_id)
            /\ contains(t_wiki[t_local[r].project], meeting_(t_local[r].wiki_id))
            /\ InIndex(t_local[r].project, t_local[r].index_id)

\* The meeting ids the run r has written so far: in the history record and
\* the transcript path, in the wiki section, in the index entry
WrittenIds(r) == {t_local[r].record_id, t_local[r].wiki_id, t_local[r].index_id} \ {0}

\* C34: everything a run writes carries the meeting id of the recording it
\* transcribed (run r transcribed recording r), and the first run, which
\* started with project P selected, files its wiki section, index entry and
\* journal entry under P, whatever the user selects or records meanwhile.
C34_ArtifactsOfOneMeeting ==
    /\ \A r \in Runs : WrittenIds(r) \subseteq {r}
    /\ t_local[1].project \in {NoLocal.project, ProjectP}

---------------------------------------------------------------------------
(* Claims about the index race (checked under SpecBuildRace).              *)

\* Both threads are through with their index calls
IndexCallsDone == b_pc["worker"] = "done" /\ b_pc["ui"] = "idle"

\* C35: when the worker's update_index_with_meeting and the builds of the UI
\* thread have all finished, the persisted index holds the entry of the
\* run's meeting id, however the reads and writes of the two threads
\* interleaved.
C35_EntryNotLost ==
    IndexCallsDone => MeetingId(RunMeeting, "") \in meeting_ids(index_file.meetings)

---------------------------------------------------------------------------
(* Claims about the indexes of two projects (checked under SpecProjects).  *)

\* The recording n was indexed by its run for that project
BelongsTo(n, project) == t_pc[n] = Finished /\ t_local[n].project = project

\* C37: the index of a project holds entries of the meetings of that
\* project only: every entry, whether an update or a build made it, is
\* the entry of a meeting whose run was made for the project.
C37_OnlyOwnMeetings ==
    \A project \in Projects :
        \A i \in DOMAIN t_index[project].meetings :
            BelongsTo(t_index[project].meetings[i].meeting_id.n, project)

---------------------------------------------------------------------------
(* Claims about the recorder (checked under SpecRecorder).                 *)

\* The capture threads that are in the read of the stream and the write of
\* the WAV file
Capturing == {n \in CaptureThreads : rec_loops[n] = "read"}

\* C38, second part: start() called while a recording is running returns
\* false and leaves the flag, the output path, the stream with the WAV file
\* and the capture thread as they were
C38_StartWhileRunningRefused ==
    (rec_call.op = "start" /\ rec_call.running) =>
        /\ ~rec_call.result
        /\ rec_output_path = rec_call.output_path
        /\ rec_thread = rec_call.thread
        /\ rec_stream \in {rec_call.stream, None}

\* C38: at most one capture thread reads the audio stream and writes the
\* WAV file at any time, under every interleaving of start(), stop() and
\* the capture loop, also after a stop() that timed out; and a start()
\* during a running recording is refused and changes nothing.
C38_OneCaptureThread ==
    /\ Cardinality(Capturing) <= 1
    /\ C38_StartWhileRunningRefused

\* C39: is_recording is true only while the capture thread is alive: when
\* the thread that was started last has left its loop and released the
\* stream and the WAV file, is_recording is false, so that a new start()
\* is accepted.
C39_RecordingOnlyWhileAlive ==
    is_recording => is_alive(rec_thread)

---------------------------------------------------------------------------
(* Claims about the journal filter (checked under SpecWeekly).             *)

\* The line is the entry line of a meeting of the project
IsEntryOf(line, project) == line = entry_line(Time1, project, NameSync, RecapGo)

IsEntryLine(line) == \E p \in WeeklyProjects : IsEntryOf(line, p)

\* The line is a detail bullet as append_journal_entry writes it
IsDetailLine(line) == startswith(line, <<" "," ","-"," ">>)

\* The entry lines of the project among the lines, each with the detail
\* bullets that directly follow it; owned tells whether the nearest entry
\* line above line i is one of the project
RECURSIVE OwnLines(_, _, _, _)
OwnLines(lines, i, project, owned) ==
    IF i > Len(lines) THEN <<>>
    ELSE IF IsEntryLine(lines[i])
         THEN (IF IsEntryOf(lines[i], project) THEN <<lines[i]>> ELSE <<>>)
                  \o OwnLines(lines, i + 1, project, IsEntryOf(lines[i], project))
         ELSE IF IsDetailLine(lines[i])
              THEN (IF owned THEN <<lines[i]>> ELSE <<>>)
                       \o OwnLines(lines, i + 1, project, owned)
              ELSE OwnLines(lines, i + 1, project, FALSE)

\* The lines that are not blank
NotBlank(lines) == SelectSeq(lines, LAMBDA ln : strip(ln) # <<>>)

\* The sections of the journal with what the project has in them
RECURSIVE SectionsOf(_, _)
SectionsOf(sections, project) ==
    IF sections = <<>> THEN <<>>
    ELSE LET own == OwnLines(Head(sections).lines, 1, project, FALSE)
         IN  (IF own # <<>> THEN <<[date |-> Head(sections).date, lines |-> own]>>
              ELSE <<>>) \o SectionsOf(Tail(sections), project)

\* C40: the filter keeps, for the given project, each of its entry lines
\* with the detail bullets that directly follow it, keeps no entry line or
\* detail bullet of another project, and returns only the date sections
\* that hold at least one entry of the project.
C40_FilterKeepsOwnEntries ==
    wk_call.op = "filter" =>
        [k \in DOMAIN wk_result |->
            [wk_result[k] EXCEPT !.lines = NotBlank(@)]]
          = SectionsOf(wk_call.sections, wk_call.project_name)

\* The part of C40 the code keeps: no entry line of another project is
\* returned
C40_NoForeignEntryLine ==
    wk_call.op = "filter" =>
        \A k \in DOMAIN wk_result : \A i \in DOMAIN wk_result[k].lines :
            IsEntryLine(wk_result[k].lines[i])
                => IsEntryOf(wk_result[k].lines[i], wk_call.project_name)

====
